---- MODULE Spec2Model ----
(***************************************************************************)
(* KeyGate of carintel: the stored functions validate_api_key,             *)
(* get_org_monthly_usage and increment_daily_usage over the relations      *)
(* api_keys, organizations, subscription_tiers and usage_daily, together   *)
(* with the dashboard handlers that write those relations.                 *)
(*                                                                         *)
(* A nullable SQL column is modelled as a set with at most one element:    *)
(* Null is {} and Some(v) is {v}.  A SQL comparison on a NULL value is     *)
(* unknown, and IF takes its branch only when the condition is true; so a  *)
(* comparison on a nullable column is written "\E v \in col : ...".        *)
(* Timestamps and dates are day numbers.                                   *)
(***************************************************************************)
EXTENDS Integers, Sequences, FiniteSets, TLC

Null == {}
Some(v) == {v}

(* ---------------------------- bounds ----------------------------------- *)

\* length of a calendar month, in days
DaysPerMonth == 2
\* last day the clock reaches
MaxDay == 2
\* number of recordUsage calls the concurrent callers issue
MaxCalls == 3
\* number of recordUsage calls the gateway makes next to the dashboard
MaxUsage == 2
\* number of validate_api_key transactions in progress at the same time
MaxValidating == 2

(* ---------------------------- domains ---------------------------------- *)

OrgIds == {"o1", "o2"}
\* an organization id no row of organizations has
UnknownOrg == "o3"
KeyIds == {"k1", "k2"}
Hashes == {"h1", "h2", "h3"}
Users == {"u1", "u2", "admin1", "admin2", "support1"}
Sources == {"api", "mcp"}
Endpoints == {"/lookup"}
Days == 0..MaxDay
OrgStatuses == {"active", "paused", "suspended", "revoked"}
SubscriptionStatuses == {"active", "past_due", "canceled", "trialing"}

VARIABLES
    now,              \* server clock: NOW() and CURRENT_DATE
    api_keys,         \* table api_keys: key id -> row
    organizations,    \* table organizations: org id -> row
    usage_daily,      \* table usage_daily: (org, date, source, endpoint) -> counters
    admin_audit_log,  \* table admin_audit_log: sequence of rows
    org_list,         \* admin page: the organizations each admin session loaded
    inflight,         \* recordUsage calls issued by the gateway, not yet executed
    ledger,           \* history: deltas of every recordUsage call issued, per row key
    ru_error,         \* outcome of the last increment_daily_usage call
    result,           \* return value of the last validate_api_key call
    validating,       \* validate_api_key transactions begun and not yet finished
    keys_page,        \* keys page: per user, the list loaded, the key shown, errors logged
    user_invites,     \* table user_invites: token -> row
    organization_members, \* table organization_members: set of rows
    accepting,        \* accept_invite calls begun: call number -> position and locals
    auth              \* AuthProvider: per user, the state and the callbacks in progress

vars == <<now, api_keys, organizations, usage_daily, admin_audit_log, org_list,
          inflight, ledger, ru_error, result, validating, keys_page,
          user_invites, organization_members, accepting, auth>>

(* ------------------------ subscription_tiers --------------------------- *)

subscription_tiers ==
    ("free" :> [monthly_token_limit |-> Some(1000), rate_limit_per_minute |-> 10])
 @@ ("starter" :> [monthly_token_limit |-> Some(50000), rate_limit_per_minute |-> 60])
 @@ ("pro" :> [monthly_token_limit |-> Some(500000), rate_limit_per_minute |-> 300])
 @@ ("enterprise" :> [monthly_token_limit |-> Null, rate_limit_per_minute |-> 1000])

TierIds == DOMAIN subscription_tiers

(* ------------------------------ rows ----------------------------------- *)

\* a row of organizations as an insert leaves it: the column defaults
NewOrganization(p_name, p_owner, p_tier) ==
    [name |-> p_name,
     owner_user_id |-> p_owner,
     subscription_tier_id |-> p_tier,
     subscription_status |-> Some("active"),
     status |-> Some("active"),
     paused_at |-> Null, paused_by |-> Null, pause_reason |-> Null,
     revoked_at |-> Null, revoked_by |-> Null, revoke_reason |-> Null]

(* ------------------------------ raw keys ------------------------------- *)

Environments == {"live", "test"}

\* the 48 hexadecimal characters drawn for a key, as the four the page's
\* slice(0, 12) keeps after "ci_live_" or "ci_test_" and the forty-four it drops
RandomParts ==
    {[shown |-> "a1b2", rest |-> "c3"], [shown |-> "a1b2", rest |-> "d4"]}

\* fullKey = `ci_${newKeyEnv}_` + randomPart
FullKey(newKeyEnv, randomPart) ==
    [product |-> "ci", env |-> newKeyEnv,
     shown |-> randomPart.shown, rest |-> randomPart.rest]

\* the raw keys that are drawn
RawKeys ==
    {FullKey("live", [shown |-> "a1b2", rest |-> "c3"]),
     FullKey("live", [shown |-> "a1b2", rest |-> "d4"]),
     FullKey("test", [shown |-> "a1b2", rest |-> "c3"])}

\* crypto.subtle.digest("SHA-256", fullKey) in hexadecimal: one digest per raw
\* key, different raw keys have different digests
SHA256(fullKey) ==
    CASE fullKey = FullKey("live", [shown |-> "a1b2", rest |-> "c3"]) -> "h1"
      [] fullKey = FullKey("live", [shown |-> "a1b2", rest |-> "d4"]) -> "h2"
      [] OTHER -> "h3"

\* fullKey.slice(0, 12) + "..."
KeyPrefix(fullKey) ==
    [product |-> fullKey.product, env |-> fullKey.env, shown |-> fullKey.shown]

\* the raw key a stored digest was computed from
RawKeyOf(p_hash) == CHOOSE fullKey \in RawKeys : SHA256(fullKey) = p_hash

\* a row of api_keys as the insert of the keys page leaves it: the columns
\* given and the column defaults
InsertedApiKey(p_org, p_hash, p_prefix, p_env) ==
    [organization_id |-> p_org,
     key_hash |-> p_hash,
     key_prefix |-> p_prefix,
     environment |-> p_env,
     rate_limit_override |-> Null,
     is_active |-> Some(TRUE),
     last_used_at |-> Null,
     expires_at |-> Null]

\* the row of a key that was created for p_org and has the digest p_hash
NewApiKey(p_org, p_hash) ==
    InsertedApiKey(p_org, p_hash, KeyPrefix(RawKeyOf(p_hash)), RawKeyOf(p_hash).env)

\* AuthProvider before any auth event: no organizations, none selected, nothing
\* under ORG_STORAGE_KEY in localStorage, no fetchOrganizations call in progress
NoAuth ==
    [organizations |-> <<>>, organizationId |-> Null, stored |-> Null, fetching |-> <<>>]

\* the page before anything was loaded, shown or logged
NoPage == [keys |-> <<>>, newKey |-> Null, errors |-> {}]

\* the conflict target without the source column
UsageKey_NoSource(p_org_id, p_date, p_source, p_endpoint) ==
    [organization_id |-> p_org_id, date |-> p_date, endpoint |-> p_endpoint]

UsageKey(p_org_id, p_date, p_source, p_endpoint) ==
    [organization_id |-> p_org_id, date |-> p_date,
     source |-> p_source, endpoint |-> p_endpoint]

(* ------------------------ get_org_monthly_usage ------------------------ *)

\* the month's first day replaced by the day itself
date_trunc_month_Day(d) == d

\* date_trunc('month', d)::DATE
date_trunc_month(d) == (d \div DaysPerMonth) * DaysPerMonth

RECURSIVE SumOver(_, _)
SumOver(f, S) ==
    IF S = {} THEN 0
    ELSE LET x == CHOOSE y \in S : TRUE
         IN  f[x] + SumOver(f, S \ {x})

\* the WHERE clause without the organization
MonthRows_AnyOrganization(org_id, p_current_date) ==
    {r \in DOMAIN usage_daily : r.date >= date_trunc_month(p_current_date)}

\* the usage_daily rows the monthly sum ranges over, CURRENT_DATE being
\* p_current_date
MonthRows(org_id, p_current_date) ==
    {r \in DOMAIN usage_daily :
        r.organization_id = org_id /\ r.date >= date_trunc_month(p_current_date)}

\* the sum over the rows of the current date only
get_org_monthly_usage_on_Today(org_id, p_current_date) ==
    [total_requests |->
        SumOver([r \in DOMAIN usage_daily |-> usage_daily[r].request_count],
                {r \in MonthRows(org_id, p_current_date) : r.date = p_current_date}),
     total_tokens |->
        SumOver([r \in DOMAIN usage_daily |-> usage_daily[r].tokens_used],
                {r \in MonthRows(org_id, p_current_date) : r.date = p_current_date})]

\* the function body; CURRENT_DATE is the date the calling transaction began
get_org_monthly_usage_on(org_id, p_current_date) ==
    [total_requests |->
        SumOver([r \in DOMAIN usage_daily |-> usage_daily[r].request_count],
                MonthRows(org_id, p_current_date)),
     total_tokens |->
        SumOver([r \in DOMAIN usage_daily |-> usage_daily[r].tokens_used],
                MonthRows(org_id, p_current_date))]

\* a call in a transaction of its own
get_org_monthly_usage(org_id) == get_org_monthly_usage_on(org_id, now)

(* --------------------------- validate_api_key -------------------------- *)

\* SELECT * INTO v_org_record ... : every field is NULL when no row is found
NullOrganization ==
    [name |-> Null, owner_user_id |-> Null, subscription_tier_id |-> Null,
     subscription_status |-> Null, status |-> Null,
     paused_at |-> Null, paused_by |-> Null, pause_reason |-> Null,
     revoked_at |-> Null, revoked_by |-> Null, revoke_reason |-> Null]

OrgRecord(org_id) ==
    IF org_id \in DOMAIN organizations
    THEN organizations[org_id]
    ELSE NullOrganization

\* SELECT * INTO v_tier_record ... WHERE st.id = v_org_record.subscription_tier_id
TierRecord(tier_id) ==
    IF \E t \in tier_id : t \in TierIds
    THEN LET t == CHOOSE t \in tier_id : t \in TierIds
         IN  [monthly_token_limit |-> subscription_tiers[t].monthly_token_limit,
              rate_limit_per_minute |-> Some(subscription_tiers[t].rate_limit_per_minute)]
    ELSE [monthly_token_limit |-> Null, rate_limit_per_minute |-> Null]

\* the NOT of the condition dropped
KeyDisabled_Inverted(v_key) == v_key.is_active = Some(TRUE)

\* IF NOT v_key_record.is_active
KeyDisabled(v_key) == v_key.is_active = Some(FALSE)

\* the comparison with NOW() turned around
KeyExpired_Reversed(v_key, p_now) == \E e \in v_key.expires_at : e > p_now

\* IF v_key_record.expires_at IS NOT NULL AND v_key_record.expires_at < NOW()
KeyExpired(v_key, p_now) == \E e \in v_key.expires_at : e < p_now

\* only the paused status blocks
OrgStatusBlocks_PausedOnly(v_org) == \E s \in v_org.status : s = "paused"

\* IF v_org_record.status IS NOT NULL AND v_org_record.status != 'active'
OrgStatusBlocks(v_org) == \E s \in v_org.status : s # "active"

\* IF subscription_status != 'active' AND subscription_status != 'trialing'
SubscriptionInactive(v_org) ==
    \E s \in v_org.subscription_status : s # "active" /\ s # "trialing"

\* the limit itself still allowed
QuotaExceeded_Strict(v_tier, v_current_usage) ==
    \E l \in v_tier.monthly_token_limit : v_current_usage > l

\* IF monthly_token_limit IS NOT NULL THEN ... IF v_current_usage >= limit
QuotaExceeded(v_tier, v_current_usage) ==
    \E l \in v_tier.monthly_token_limit : v_current_usage >= l

\* COALESCE(v_key_record.rate_limit_override, v_tier_record.rate_limit_per_minute)
EffectiveRate(v_key, v_tier) ==
    IF v_key.rate_limit_override # Null
    THEN v_key.rate_limit_override
    ELSE v_tier.rate_limit_per_minute

\* the row without its rejection_reason
Return_NoReason(p_key, p_org, p_name, p_tier, p_rate, p_monthly, p_valid, p_reason) ==
    [api_key_id |-> p_key, organization_id |-> p_org, org_name |-> p_name,
     tier_id |-> p_tier, rate_limit |-> p_rate, monthly_limit |-> p_monthly,
     is_valid |-> p_valid, rejection_reason |-> Null]

\* one row of the RETURNS TABLE
Return(p_key, p_org, p_name, p_tier, p_rate, p_monthly, p_valid, p_reason) ==
    [api_key_id |-> p_key, organization_id |-> p_org, org_name |-> p_name,
     tier_id |-> p_tier, rate_limit |-> p_rate, monthly_limit |-> p_monthly,
     is_valid |-> p_valid, rejection_reason |-> p_reason]

\* the checks after the key row was found, in the order of the function
\* body; NOW() and CURRENT_DATE are the time the transaction began, p_now
ValidateKeyOfOrg(k, p_now, v_org) ==
    LET v_key == api_keys[k]
        v_tier == TierRecord(v_org.subscription_tier_id)
        v_current_usage ==
            get_org_monthly_usage_on(v_key.organization_id, p_now).total_tokens
    IN  IF KeyDisabled(v_key)
        THEN Return(Some(k), Some(v_key.organization_id), Null, Null, Null, Null,
                    FALSE, Some("key_disabled"))
        ELSE IF KeyExpired(v_key, p_now)
        THEN Return(Some(k), Some(v_key.organization_id), Null, Null, Null, Null,
                    FALSE, Some("key_expired"))
        ELSE IF OrgStatusBlocks(v_org)
        THEN Return(Some(k), Some(v_key.organization_id), v_org.name,
                    v_org.subscription_tier_id, Null, Null, FALSE,
                    {"organization_" \o s : s \in v_org.status})
        ELSE IF SubscriptionInactive(v_org)
        THEN Return(Some(k), Some(v_key.organization_id), v_org.name,
                    v_org.subscription_tier_id, Null, Null, FALSE,
                    Some("subscription_inactive"))
        ELSE IF QuotaExceeded(v_tier, v_current_usage)
        THEN Return(Some(k), Some(v_key.organization_id), v_org.name,
                    v_org.subscription_tier_id, EffectiveRate(v_key, v_tier),
                    v_tier.monthly_token_limit, FALSE, Some("quota_exceeded"))
        ELSE Return(Some(k), Some(v_key.organization_id), v_org.name,
                    v_org.subscription_tier_id, EffectiveRate(v_key, v_tier),
                    v_tier.monthly_token_limit, TRUE, Null)

\* the checks with v_org_record as SELECT * INTO v_org_record reads it
ValidateKey(k, p_now) ==
    ValidateKeyOfOrg(k, p_now, OrgRecord(api_keys[k].organization_id))

\* the lookup without its WHERE clause
KeysWithHash_AnyKey(p_key_hash) == DOMAIN api_keys

\* the rows SELECT ... WHERE ak.key_hash = p_key_hash finds (key_hash is UNIQUE)
KeysWithHash(p_key_hash) ==
    {k \in DOMAIN api_keys : api_keys[k].key_hash = p_key_hash}

\* the function body in a transaction that began at p_now
validate_api_key_at(p_key_hash, p_now) ==
    IF KeysWithHash(p_key_hash) = {}
    THEN Return(Null, Null, Null, Null, Null, Null, FALSE, Some("invalid_key"))
    ELSE ValidateKey(CHOOSE k \in KeysWithHash(p_key_hash) : TRUE, p_now)

\* the return value of a call that begins and finishes now
validate_api_key(p_key_hash) == validate_api_key_at(p_key_hash, now)

\* the UPDATE written on every path, rejections included
TouchLastUsed_Always(ret, p_now) ==
    [k \in DOMAIN api_keys |->
        IF Some(k) = ret.api_key_id
        THEN [api_keys[k] EXCEPT !.last_used_at = Some(p_now)]
        ELSE api_keys[k]]

\* UPDATE api_keys SET last_used_at = NOW() WHERE id = v_key_record.id: the
\* statement is reached on the success path only
TouchLastUsed(ret, p_now) ==
    IF ret.is_valid
    THEN [k \in DOMAIN api_keys |->
            IF Some(k) = ret.api_key_id
            THEN [api_keys[k] EXCEPT !.last_used_at = Some(p_now)]
            ELSE api_keys[k]]
    ELSE api_keys

\* a call of validate_api_key: the return value, and last_used_at = NOW() on success
Validate(p_key_hash) ==
    LET ret == validate_api_key(p_key_hash)
    IN  /\ result' = Some([hash |-> p_key_hash, ret |-> ret])
        /\ api_keys' = TouchLastUsed(ret, now)
        /\ UNCHANGED <<now, organizations, usage_daily, admin_audit_log, org_list,
                       inflight, ledger, ru_error, validating,
                   keys_page,
                   user_invites, organization_members, accepting, auth>>

\* concurrent callers: a request begins its transaction, which fixes NOW() ...
BeginValidate(p_key_hash) ==
    /\ Cardinality(DOMAIN validating) < MaxValidating
    /\ LET i == CHOOSE j \in 1..MaxValidating :
                    /\ j \notin DOMAIN validating
                    /\ \A l \in 1..(j - 1) : l \in DOMAIN validating
       IN  validating' = [j \in DOMAIN validating \cup {i} |->
                            IF j = i
                            THEN [hash |-> p_key_hash, started |-> now]
                            ELSE validating[j]]
    /\ UNCHANGED <<now, api_keys, organizations, usage_daily, admin_audit_log,
                   org_list, inflight, ledger, ru_error, result,
                   keys_page,
                   user_invites, organization_members, accepting, auth>>

\* the body reading the clock when it runs, not when the transaction began
FinishValidate_ClockAtFinish(i) ==
    /\ i \in DOMAIN validating
    /\ LET c == validating[i]
           ret == validate_api_key_at(c.hash, now)
       IN  /\ result' = Some([hash |-> c.hash, ret |-> ret])
           /\ api_keys' = TouchLastUsed(ret, now)
    /\ validating' = [j \in DOMAIN validating \ {i} |-> validating[j]]
    /\ UNCHANGED <<now, organizations, usage_daily, admin_audit_log, org_list,
                   inflight, ledger, ru_error,
                   keys_page,
                   user_invites, organization_members, accepting, auth>>

\* ... and the function body runs later, in any order among the transactions
\* begun: the checks read the rows as they are stored then, NOW() is the time
\* the transaction began
FinishValidate(i) ==
    /\ i \in DOMAIN validating
    /\ LET c == validating[i]
           ret == validate_api_key_at(c.hash, c.started)
       IN  /\ result' = Some([hash |-> c.hash, ret |-> ret])
           /\ api_keys' = TouchLastUsed(ret, c.started)
    /\ validating' = [j \in DOMAIN validating \ {i} |-> validating[j]]
    /\ UNCHANGED <<now, organizations, usage_daily, admin_audit_log, org_list,
                   inflight, ledger, ru_error,
                   keys_page,
                   user_invites, organization_members, accepting, auth>>

(* ------------- validate_api_key over the stored states ----------------- *)

\* month totals the stored states are drawn with: around each tier's limit
UsageLevels == {0, 999, 1000, 50000}

\* SpecV starts on the first day of the second month
FirstDay == DaysPerMonth

\* the column values the stored states are drawn from, defaults first
ActiveValues == <<Some(TRUE), Some(FALSE), Null>>
ExpiryValues == <<Null, Some(FirstDay + 1), Some(FirstDay), Some(FirstDay - 1)>>
OverrideValues == <<Null, Some(500)>>
StatusValues ==
    <<Some("active"), Some("paused"), Some("suspended"), Some("revoked"), Null>>
SubscriptionValues ==
    <<Some("active"), Some("trialing"), Some("past_due"), Some("canceled"), Null>>
TierValues ==
    <<Some("free"), Some("starter"), Some("pro"), Some("enterprise"), Null>>

InitV ==
    /\ now = FirstDay
    /\ \E a1 \in DOMAIN ActiveValues, e1 \in DOMAIN ExpiryValues,
          r1 \in DOMAIN OverrideValues, a2 \in 1..2 :
          api_keys =
              ("k1" :> [NewApiKey("o1", "h1") EXCEPT
                          !.is_active = ActiveValues[a1],
                          !.expires_at = ExpiryValues[e1],
                          !.rate_limit_override = OverrideValues[r1]])
           @@ ("k2" :> [NewApiKey("o1", "h2") EXCEPT
                          !.is_active = ActiveValues[a2]])
    /\ \E s \in DOMAIN StatusValues, b \in DOMAIN SubscriptionValues,
          t \in DOMAIN TierValues :
          organizations =
              ("o1" :> [NewOrganization(Some("Org 1"), Some("u1"), TierValues[t])
                          EXCEPT !.status = StatusValues[s],
                                 !.subscription_status = SubscriptionValues[b]])
           @@ ("o2" :> NewOrganization(Some("Org 2"), Some("u2"), Some("free")))
    /\ \E u \in UsageLevels, m \in {0, 1} :
          usage_daily =
              [r \in {UsageKey("o1", FirstDay, "api", "/lookup"),
                      UsageKey("o1", FirstDay - 1, "api", "/lookup"),
                      UsageKey("o2", FirstDay, "api", "/lookup")}
                     \cup {UsageKey("o1", FirstDay + 1, "mcp", "/lookup") : x \in 1..m}
               |-> IF r.organization_id = "o2" \/ r.date < FirstDay
                   THEN [request_count |-> 7, tokens_used |-> 500000]
                   ELSE IF r.source = "mcp"
                   THEN [request_count |-> 1, tokens_used |-> 1]
                   ELSE [request_count |-> 2, tokens_used |-> u]]
    /\ admin_audit_log = <<>>
    /\ org_list = <<>>
    /\ inflight = <<>>
    /\ validating = <<>>
    /\ keys_page = [u \in Users |-> NoPage]
    /\ user_invites = <<>>
    /\ organization_members = {}
    /\ accepting = <<>>
    /\ auth = [u \in Users |-> NoAuth]
    /\ ledger = <<>>
    /\ ru_error = Null
    /\ result = Null

NextV == \E h \in Hashes : Validate(h)

SpecV == InitV /\ [][NextV]_vars

(* ------------------------ increment_daily_usage ------------------------ *)

\* the deltas (p_requests, p_tokens) the calls are drawn from
DeltaPairs == {<<1, 1>>, <<2, 3>>, <<-1, -2>>}

\* ON CONFLICT DO UPDATE overwriting the counters with the deltas
increment_daily_usage_Overwrite(p_org_id, p_date, p_source, p_endpoint, p_requests, p_tokens) ==
    LET key == UsageKey(p_org_id, p_date, p_source, p_endpoint)
        row == [request_count |-> p_requests, tokens_used |-> p_tokens]
    IN  [r \in DOMAIN usage_daily \cup {key} |->
            IF r = key THEN row ELSE usage_daily[r]]

\* INSERT ... ON CONFLICT (organization_id, date, source, endpoint) DO UPDATE:
\* the table after the statement
increment_daily_usage(p_org_id, p_date, p_source, p_endpoint, p_requests, p_tokens) ==
    LET key == UsageKey(p_org_id, p_date, p_source, p_endpoint)
    IN  IF key \in DOMAIN usage_daily
        THEN [usage_daily EXCEPT ![key] =
                [request_count |-> @.request_count + p_requests,
                 tokens_used |-> @.tokens_used + p_tokens]]
        ELSE [r \in DOMAIN usage_daily \cup {key} |->
                IF r = key
                THEN [request_count |-> p_requests, tokens_used |-> p_tokens]
                ELSE usage_daily[r]]

\* the statement, with the foreign key of usage_daily.organization_id: a call
\* for an organization that does not exist raises and changes nothing
ExecuteIncrement(c) ==
    IF c.org_id \in DOMAIN organizations
    THEN /\ usage_daily' = increment_daily_usage(c.org_id, c.date, c.source,
                                                c.endpoint, c.requests, c.tokens)
         /\ ru_error' = Null
    ELSE /\ usage_daily' = usage_daily
         /\ ru_error' = Some("foreign_key_violation")

UsageCall(p_org_id, p_date, p_source, p_endpoint, p_requests, p_tokens) ==
    [org_id |-> p_org_id, date |-> p_date, source |-> p_source,
     endpoint |-> p_endpoint, requests |-> p_requests, tokens |-> p_tokens]

\* history of the calls issued: per row key, how many and the sums of deltas
LedgerAdd(c) ==
    LET key == UsageKey(c.org_id, c.date, c.source, c.endpoint)
        old == IF key \in DOMAIN ledger
               THEN ledger[key]
               ELSE [calls |-> 0, requests |-> 0, tokens |-> 0]
    IN  [r \in DOMAIN ledger \cup {key} |->
            IF r = key
            THEN [calls |-> old.calls + 1,
                  requests |-> old.requests + c.requests,
                  tokens |-> old.tokens + c.tokens]
            ELSE ledger[r]]

CallsIssued ==
    SumOver([r \in DOMAIN ledger |-> ledger[r].calls], DOMAIN ledger)

\* the gateway records usage: one call of increment_daily_usage
RecordUsage(p_org_id, p_date, p_source, p_endpoint, p_requests, p_tokens) ==
    LET c == UsageCall(p_org_id, p_date, p_source, p_endpoint, p_requests, p_tokens)
    IN  /\ CallsIssued < MaxUsage
        /\ ExecuteIncrement(c)
        /\ ledger' = LedgerAdd(c)
        /\ UNCHANGED <<now, api_keys, organizations, admin_audit_log, org_list,
                       inflight, result, validating,
                   keys_page,
                   user_invites, organization_members, accepting, auth>>

\* concurrent callers: a request issues its call ...
IssueRecordUsage(p_org_id, p_date, p_source, p_endpoint, p_requests, p_tokens) ==
    LET c == UsageCall(p_org_id, p_date, p_source, p_endpoint, p_requests, p_tokens)
    IN  /\ CallsIssued < MaxCalls
        /\ inflight' = [i \in DOMAIN inflight \cup {CallsIssued + 1} |->
                           IF i = CallsIssued + 1 THEN c ELSE inflight[i]]
        /\ ledger' = LedgerAdd(c)
        /\ UNCHANGED <<now, api_keys, organizations, usage_daily, admin_audit_log,
                       org_list, ru_error, result, validating,
                   keys_page,
                   user_invites, organization_members, accepting, auth>>

\* ... and the database executes the issued statements one at a time, in any order
ExecuteRecordUsage(i) ==
    /\ i \in DOMAIN inflight
    /\ ExecuteIncrement(inflight[i])
    /\ inflight' = [j \in DOMAIN inflight \ {i} |-> inflight[j]]
    /\ UNCHANGED <<now, api_keys, organizations, admin_audit_log, org_list,
                   ledger, result, validating,
                   keys_page,
                   user_invites, organization_members, accepting, auth>>

(* ------------------------------ the clock ------------------------------ *)

Tick ==
    /\ now < MaxDay
    /\ now' = now + 1
    /\ UNCHANGED <<api_keys, organizations, usage_daily, admin_audit_log, org_list,
                   inflight, ledger, ru_error, result, validating,
                   keys_page,
                   user_invites, organization_members, accepting, auth>>

(* ------------------------- keys page (dashboard) ----------------------- *)

\* organizations ... .eq("owner_user_id", user.id).single()
OwnedOrgs(user) ==
    {o \in DOMAIN organizations : organizations[o].owner_user_id = Some(user)}

\* loadKeys: the keys of the user's organization, with the columns selected;
\* without exactly one owned organization the list stays as it is
loadKeys(user, p_api_keys) ==
    IF Cardinality(OwnedOrgs(user)) = 1
    THEN LET org == CHOOSE o \in OwnedOrgs(user) : TRUE
         IN  [k \in {j \in DOMAIN p_api_keys : p_api_keys[j].organization_id = org} |->
                 [key_prefix |-> p_api_keys[k].key_prefix,
                  environment |-> p_api_keys[k].environment,
                  is_active |-> p_api_keys[k].is_active,
                  last_used_at |-> p_api_keys[k].last_used_at]]
    ELSE keys_page[user].keys

\* the id the database gives the next row of api_keys
NextKeyId ==
    CHOOSE k \in KeyIds \ DOMAIN api_keys :
        \A j \in KeyIds \ DOMAIN api_keys : k = "k1" \/ j # "k1"

\* the insert without the UNIQUE constraint on key_hash
InsertFails_NoUnique(keyHash) == FALSE

\* the insert of createKey fails on the UNIQUE constraint of key_hash
InsertFails(keyHash) == KeysWithHash(keyHash) # {}

\* createKey: a key is drawn, its digest is inserted for the user's
\* organization with the first characters of the key, the key is shown and
\* the list reloaded; a failed insert is logged and changes nothing else;
\* without a name or without exactly one owned organization nothing happens
createKey(user, newKeyName, newKeyEnv, randomPart) ==
    /\ newKeyName # ""
    /\ Cardinality(OwnedOrgs(user)) = 1
    /\ LET fullKey == FullKey(newKeyEnv, randomPart)
           keyHash == SHA256(fullKey)
           org == CHOOSE o \in OwnedOrgs(user) : TRUE
       IN  IF InsertFails(keyHash)
           THEN /\ api_keys' = api_keys
                /\ keys_page' = [keys_page EXCEPT
                                    ![user].errors = @ \cup {"Error creating key"}]
           ELSE /\ DOMAIN api_keys # KeyIds
                /\ api_keys' = [k \in DOMAIN api_keys \cup {NextKeyId} |->
                                   IF k = NextKeyId
                                   THEN InsertedApiKey(org, keyHash, KeyPrefix(fullKey),
                                                       newKeyEnv)
                                   ELSE api_keys[k]]
                /\ keys_page' = [keys_page EXCEPT
                                    ![user].newKey = Some(fullKey),
                                    ![user].keys = loadKeys(user, api_keys')]
    /\ UNCHANGED <<now, organizations, usage_daily, admin_audit_log, org_list,
                   inflight, ledger, ru_error, result, validating,
                   user_invites, organization_members, accepting, auth>>

\* the user whose keys page lists the key: the owner of its organization
KeyOwner(keyId) ==
    organizations[api_keys[keyId].organization_id].owner_user_id

\* revokeKey as a switch: a revoked key is made active again
revokeKey_Toggle(keyId) ==
    /\ keyId \in DOMAIN api_keys
    /\ KeyOwner(keyId) # Null
    /\ api_keys' = [api_keys EXCEPT
                       ![keyId].is_active = IF @ = Some(FALSE) THEN Some(TRUE)
                                                               ELSE Some(FALSE)]
    /\ keys_page' = [u \in Users |->
                        IF Some(u) = KeyOwner(keyId)
                        THEN [keys_page[u] EXCEPT !.keys = loadKeys(u, api_keys')]
                        ELSE keys_page[u]]
    /\ UNCHANGED <<now, organizations, usage_daily, admin_audit_log, org_list,
                   inflight, ledger, ru_error, result, validating,
                   user_invites, organization_members, accepting, auth>>

\* revokeKey: update({ is_active: false }).eq("id", keyId), then loadKeys()
revokeKey(keyId) ==
    /\ keyId \in DOMAIN api_keys
    /\ KeyOwner(keyId) # Null
    /\ api_keys' = [api_keys EXCEPT ![keyId].is_active = Some(FALSE)]
    /\ keys_page' = [u \in Users |->
                        IF Some(u) = KeyOwner(keyId)
                        THEN [keys_page[u] EXCEPT !.keys = loadKeys(u, api_keys')]
                        ELSE keys_page[u]]
    /\ UNCHANGED <<now, organizations, usage_daily, admin_audit_log, org_list,
                   inflight, ledger, ru_error, result, validating,
                   user_invites, organization_members, accepting, auth>>

(* --------------------- organizations page (admin) ---------------------- *)

\* table admin_users: user -> role, one row per user
admin_users ==
    ("admin1" :> "admin") @@ ("admin2" :> "super_admin") @@ ("support1" :> "support")

AdminRole(user) ==
    IF user \in DOMAIN admin_users THEN Some(admin_users[user]) ELSE Null

\* canManage that lets every admin role through
canManage_AnyRole(role) == role # Null

canManage(role) == role = Some("super_admin") \/ role = Some("admin")

isSuperAdmin(role) == role = Some("super_admin")

\* is_admin(check_user_id, required_role)
is_admin(check_user_id, required_role) ==
    LET admin_role == AdminRole(check_user_id)
    IN  IF admin_role = Null THEN FALSE
        ELSE IF required_role = "super_admin"
             THEN admin_role = Some("super_admin")
        ELSE IF required_role = "admin"
             THEN admin_role \in {Some("super_admin"), Some("admin")}
        ELSE TRUE

\* policy "Admins can update organizations": the only UPDATE policy the admin
\* page's updates can pass
OrganizationsUpdatePolicy(user) == is_admin(user, "admin")

\* admin_audit_log has row level security enabled and a SELECT policy only:
\* an insert through the browser client passes no policy
AuditLogInsertPolicy(user) == FALSE

\* update(...).eq("id", org): the row changes when the policy lets the user
UpdateOrganization(user, org, row) ==
    IF OrganizationsUpdatePolicy(user)
    THEN [organizations EXCEPT ![org] = row]
    ELSE organizations

\* const s = status || "active"
StatusOrActive(status) == IF status = Null THEN "active" ELSE CHOOSE v \in status : TRUE

\* getStatusBadge: the text of the badge
getStatusBadge(status) ==
    CASE StatusOrActive(status) = "active" -> "Active"
      [] StatusOrActive(status) = "paused" -> "Paused"
      [] StatusOrActive(status) = "suspended" -> "Suspended"
      [] StatusOrActive(status) = "revoked" -> "Revoked"
      [] OTHER -> StatusOrActive(status)

\* filteredOrgs: statusFilter === "all" || (org.status || "active") === statusFilter
matchesStatus(status, statusFilter) ==
    statusFilter = "all" \/ StatusOrActive(status) = statusFilter

\* the Pause button only for a status the list shows as 'active'
PauseButtonShown_ActiveOnly(status) == status = Some("active")

\* org.status === "active" || org.status === null
PauseButtonShown(status) == status = Some("active") \/ status = Null

\* loadData: the list of organizations the page shows
LoadedList ==
    [o \in DOMAIN organizations |->
        [status |-> organizations[o].status,
         subscription_tier_id |-> organizations[o].subscription_tier_id]]

NoDetails ==
    [reason |-> Null, previous_status |-> Null,
     previous_tier |-> Null, new_tier |-> Null]

\* logAdminAction: the insert into admin_audit_log; its outcome is not looked at
logAdminAction(user, action, targetId, details) ==
    IF AuditLogInsertPolicy(user)
    THEN Append(admin_audit_log,
                [admin_user_id |-> user, action |-> action,
                 target_type |-> "organization", target_id |-> targetId,
                 details |-> details])
    ELSE admin_audit_log

\* what every handler of the page does after its update: the audit row, then
\* loadData
AfterUpdate(user, action, org, details) ==
    /\ admin_audit_log' = logAdminAction(user, action, org, details)
    /\ org_list' = [org_list EXCEPT ![user] = LoadedList']
    /\ UNCHANGED <<now, api_keys, usage_daily, inflight, ledger, ru_error, result,
                   validating,
                   keys_page,
                   user_invites, organization_members, accepting, auth>>

\* handlePause, from the Pause button of an organization listed as active
handlePause(user, org, pauseReason) ==
    /\ user \in DOMAIN org_list /\ org \in DOMAIN org_list[user]
    /\ canManage(AdminRole(user))
    /\ PauseButtonShown(org_list[user][org].status)
    /\ organizations' = UpdateOrganization(user, org,
          [organizations[org] EXCEPT !.status = Some("paused"),
                    !.paused_at = Some(now),
                    !.paused_by = Some(user),
                    !.pause_reason = Some(pauseReason)])
    /\ AfterUpdate(user, "pause_organization", org,
                   [NoDetails EXCEPT !.reason = Some(pauseReason),
                                     !.previous_status = org_list[user][org].status])

\* handleResume that also puts the organization back on the free tier
handleResume_ResetsTier(user, org) ==
    /\ user \in DOMAIN org_list /\ org \in DOMAIN org_list[user]
    /\ canManage(AdminRole(user))
    /\ org_list[user][org].status = Some("paused")
    /\ organizations' = UpdateOrganization(user, org,
          [organizations[org] EXCEPT !.status = Some("active"),
                    !.paused_at = Null,
                    !.paused_by = Null,
                    !.pause_reason = Null,
                    !.subscription_tier_id = Some("free")])
    /\ AfterUpdate(user, "resume_organization", org,
                   [NoDetails EXCEPT !.previous_status = org_list[user][org].status])

\* handleResume, from the Resume button of an organization listed as paused
handleResume(user, org) ==
    /\ user \in DOMAIN org_list /\ org \in DOMAIN org_list[user]
    /\ canManage(AdminRole(user))
    /\ org_list[user][org].status = Some("paused")
    /\ organizations' = UpdateOrganization(user, org,
          [organizations[org] EXCEPT !.status = Some("active"),
                    !.paused_at = Null,
                    !.paused_by = Null,
                    !.pause_reason = Null])
    /\ AfterUpdate(user, "resume_organization", org,
                   [NoDetails EXCEPT !.previous_status = org_list[user][org].status])

\* handleRevoke, from the Revoke button of an organization not listed as revoked
handleRevoke(user, org, revokeReason) ==
    /\ user \in DOMAIN org_list /\ org \in DOMAIN org_list[user]
    /\ canManage(AdminRole(user))
    /\ org_list[user][org].status # Some("revoked")
    /\ organizations' = UpdateOrganization(user, org,
          [organizations[org] EXCEPT !.status = Some("revoked"),
                    !.revoked_at = Some(now),
                    !.revoked_by = Some(user),
                    !.revoke_reason = Some(revokeReason)])
    /\ AfterUpdate(user, "revoke_organization", org,
                   [NoDetails EXCEPT !.reason = Some(revokeReason),
                                     !.previous_status = org_list[user][org].status])

\* handleChangeTier, with a tier chosen in the modal
handleChangeTier(user, org, newTier) ==
    /\ user \in DOMAIN org_list /\ org \in DOMAIN org_list[user]
    /\ canManage(AdminRole(user))
    /\ newTier \in TierIds
    /\ organizations' = UpdateOrganization(user, org,
          [organizations[org] EXCEPT !.subscription_tier_id = Some(newTier)])
    /\ AfterUpdate(user, "change_tier", org,
                   [NoDetails EXCEPT
                       !.previous_tier = org_list[user][org].subscription_tier_id,
                       !.new_tier = Some(newTier)])

\* loadData when the page is opened or reloaded by a user it is shown to
loadData(user) ==
    /\ AdminRole(user) # Null
    /\ org_list' = [u \in DOMAIN org_list \cup {user} |->
                       IF u = user THEN LoadedList ELSE org_list[u]]
    /\ UNCHANGED <<now, api_keys, organizations, usage_daily, admin_audit_log,
                   inflight, ledger, ru_error, result, validating, keys_page,
                   user_invites, organization_members, accepting, auth>>

(* --------------------- the gate and the dashboard ---------------------- *)

\* usage of "o1" at the start: one token below the limit of the free tier
StartTokens ==
    (CHOOSE l \in subscription_tiers["free"].monthly_token_limit : TRUE) - 1

Init ==
    /\ now = 0
    /\ organizations =
          ("o1" :> NewOrganization(Some("Org 1"), Some("u1"), Some("free")))
       @@ ("o2" :> NewOrganization(Some("Org 2"), Some("u2"), Some("starter")))
    /\ api_keys = ("k1" :> NewApiKey("o1", "h1"))
    /\ usage_daily =
          (UsageKey("o1", 0, "api", "/lookup")
              :> [request_count |-> StartTokens, tokens_used |-> StartTokens])
    /\ admin_audit_log = <<>>
    /\ org_list = ("admin1" :> LoadedList)
    /\ inflight = <<>>
    /\ validating = <<>>
    /\ keys_page = [u \in Users |-> NoPage]
    /\ user_invites = <<>>
    /\ organization_members = {}
    /\ accepting = <<>>
    /\ auth = [u \in Users |-> NoAuth]
    /\ ledger = <<>>
    /\ ru_error = Null
    /\ result = Null

Next ==
    \/ \E o \in {"o1"}, t \in {"enterprise"} :
          handleChangeTier("admin1", o, t)
    \/ \E o \in {"o1"} : handlePause("admin1", o, "maintenance")
    \/ \E o \in {"o1"} : handleResume("admin1", o)
    \/ \E o \in {"o1"} : handleRevoke("admin1", o, "abuse")
    \/ Validate("h1")
    \/ \E c \in {<<now, 1, 1>>, <<now + 1, 1, 1>>, <<now, -1, -2>>} :
          RecordUsage("o1", c[1], "api", "/lookup", c[2], c[3])
    \/ \E k \in DOMAIN api_keys : revokeKey(k)
    \/ Tick

Spec == Init /\ [][Next]_vars

(* ---------------- the life of a key: keys page and gate ---------------- *)

\* the day before the last one: a key of o1 that was created earlier, without
\* an expiry date or about to expire
InitK ==
    /\ now = MaxDay - 1
    /\ organizations =
          ("o1" :> NewOrganization(Some("Org 1"), Some("u1"), Some("free")))
       @@ ("o2" :> NewOrganization(Some("Org 2"), Some("u2"), Some("starter")))
    /\ \E e \in {Null, Some(MaxDay - 1)} :
          api_keys = ("k1" :> [NewApiKey("o1", "h1") EXCEPT !.expires_at = e])
    /\ usage_daily = <<>>
    /\ admin_audit_log = <<>>
    /\ org_list = ("admin1" :> LoadedList)
    /\ inflight = <<>>
    /\ validating = <<>>
    /\ keys_page = [u \in Users |-> NoPage]
    /\ user_invites = <<>>
    /\ organization_members = {}
    /\ accepting = <<>>
    /\ auth = [u \in Users |-> NoAuth]
    /\ ledger = <<>>
    /\ ru_error = Null
    /\ result = Null

NextK ==
    \/ \E u \in {"u1", "u2"}, n \in {"", "key"}, e \in Environments, r \in RandomParts :
          /\ FullKey(e, r) \in RawKeys
          /\ createKey(u, n, e, r)
    \/ \E k \in DOMAIN api_keys : revokeKey(k)
    \/ Validate("h1")
    \/ RecordUsage("o1", now, "api", "/lookup", 1, 1)
    \/ \E t \in {"enterprise"} : handleChangeTier("admin1", "o1", t)
    \/ handlePause("admin1", "o1", "maintenance")
    \/ handleResume("admin1", "o1")
    \/ handleRevoke("admin1", "o1", "abuse")
    \/ Tick

SpecK == InitK /\ [][NextK]_vars

(* ------------------- admin sessions side by side ----------------------- *)

\* the users who open the organizations page or call its handlers
Sessions == {"admin1", "admin2", "support1", "u1"}

\* an organization with an active and a revoked key; the page is open in the
\* sessions of two admins
InitA ==
    /\ now = 0
    /\ \E s \in {Null, Some("active"), Some("suspended")} :
          organizations =
             ("o1" :> [NewOrganization(Some("Org 1"), Some("u1"), Some("free"))
                          EXCEPT !.status = s])
    /\ api_keys = ("k1" :> NewApiKey("o1", "h1"))
                @@ ("k2" :> [NewApiKey("o1", "h2") EXCEPT !.is_active = Some(FALSE)])
    /\ usage_daily = <<>>
    /\ admin_audit_log = <<>>
    /\ org_list = ("admin1" :> LoadedList) @@ ("admin2" :> LoadedList)
    /\ inflight = <<>>
    /\ validating = <<>>
    /\ keys_page = [u \in Users |-> NoPage]
    /\ user_invites = <<>>
    /\ organization_members = {}
    /\ accepting = <<>>
    /\ auth = [u \in Users |-> NoAuth]
    /\ ledger = <<>>
    /\ ru_error = Null
    /\ result = Null

NextA ==
    \/ \E u \in Sessions : loadData(u)
    \/ \E u \in Sessions : handlePause(u, "o1", "maintenance")
    \/ \E u \in Sessions : handleResume(u, "o1")
    \/ \E u \in Sessions : handleRevoke(u, "o1", "abuse")
    \/ \E u \in Sessions : handleChangeTier(u, "o1", "enterprise")
    \/ Validate("h1")
    \/ Tick

SpecA == InitA /\ [][NextA]_vars

(* ------------------------ pause and resume ----------------------------- *)

\* an organization that is not paused, with stored states around every check
\* of the gate; the page is open in the session of one admin
InitP ==
    /\ now = 1
    /\ \E s \in {Null, Some("active")}, b \in {Some("active"), Some("past_due")},
          t \in {Some("free"), Some("enterprise")} :
          organizations =
             ("o1" :> [NewOrganization(Some("Org 1"), Some("u1"), t)
                          EXCEPT !.status = s, !.subscription_status = b])
    /\ \E e \in {Null, Some(0)}, a \in {Some(TRUE), Some(FALSE)} :
          api_keys = ("k1" :> [NewApiKey("o1", "h1") EXCEPT !.expires_at = e])
                  @@ ("k2" :> [NewApiKey("o1", "h2") EXCEPT !.is_active = a])
    /\ \E u \in {0, StartTokens + 1} :
          usage_daily =
             (UsageKey("o1", 0, "api", "/lookup")
                 :> [request_count |-> 1, tokens_used |-> u])
    /\ admin_audit_log = <<>>
    /\ org_list = ("admin1" :> LoadedList)
    /\ inflight = <<>>
    /\ validating = <<>>
    /\ keys_page = [u \in Users |-> NoPage]
    /\ user_invites = <<>>
    /\ organization_members = {}
    /\ accepting = <<>>
    /\ auth = [u \in Users |-> NoAuth]
    /\ ledger = <<>>
    /\ ru_error = Null
    /\ result = Null

\* pause, resume, and nothing else that changes what validate reads
NextP ==
    \/ handlePause("admin1", "o1", "maintenance")
    \/ handleResume("admin1", "o1")
    \/ loadData("admin2")
    \/ \E h \in Hashes : Validate(h)

SpecP == InitP /\ [][NextP]_vars

(* ------------------ recordUsage under concurrent callers --------------- *)

InitU ==
    /\ now = 0
    /\ organizations =
          ("o1" :> NewOrganization(Some("Org 1"), Some("u1"), Some("free")))
       @@ ("o2" :> NewOrganization(Some("Org 2"), Some("u2"), Some("starter")))
    /\ api_keys = <<>>
    /\ usage_daily = <<>>
    /\ admin_audit_log = <<>>
    /\ org_list = <<>>
    /\ inflight = <<>>
    /\ validating = <<>>
    /\ keys_page = [u \in Users |-> NoPage]
    /\ user_invites = <<>>
    /\ organization_members = {}
    /\ accepting = <<>>
    /\ auth = [u \in Users |-> NoAuth]
    /\ ledger = <<>>
    /\ ru_error = Null
    /\ result = Null

NextU ==
    \/ \E o \in OrgIds \cup {UnknownOrg}, s \in Sources, e \in Endpoints,
          p \in DeltaPairs :
          IssueRecordUsage(o, now, s, e, p[1], p[2])
    \/ \E i \in 1..MaxCalls : ExecuteRecordUsage(i)

SpecU == InitU /\ [][NextU]_vars

(* ---------------------- concurrent validate calls ---------------------- *)

\* the usage_daily tables the concurrent callers start with: one row of the
\* first month just below the limit of the free tier; or a first-month row
\* with negative counters next to a row dated in the second month
UsageTables ==
    { (UsageKey("o1", 0, "api", "/lookup")
          :> [request_count |-> StartTokens, tokens_used |-> StartTokens]),
      (UsageKey("o1", 0, "api", "/lookup")
          :> [request_count |-> -1, tokens_used |-> -1])
       @@ (UsageKey("o1", DaysPerMonth, "api", "/lookup")
          :> [request_count |-> StartTokens + 1, tokens_used |-> StartTokens + 1]) }

InitC ==
    /\ now = 0
    /\ \E t \in {"free", "enterprise"} :
          organizations =
             ("o1" :> NewOrganization(Some("Org 1"), Some("u1"), Some(t)))
    /\ \E e \in {Null, Some(1)} :
          api_keys = ("k1" :> [NewApiKey("o1", "h1") EXCEPT !.expires_at = e])
    /\ usage_daily \in UsageTables
    /\ admin_audit_log = <<>>
    /\ org_list = <<>>
    /\ inflight = <<>>
    /\ validating = <<>>
    /\ keys_page = [u \in Users |-> NoPage]
    /\ user_invites = <<>>
    /\ organization_members = {}
    /\ accepting = <<>>
    /\ auth = [u \in Users |-> NoAuth]
    /\ ledger = <<>>
    /\ ru_error = Null
    /\ result = Null

NextC ==
    \/ BeginValidate("h1")
    \/ \E i \in 1..MaxValidating : FinishValidate(i)
    \/ Tick

SpecC == InitC /\ [][NextC]_vars

(* ------------------ the decision as the contract states it ------------- *)

\* the key row a presented hash resolves to
KeyOfHash(h) == CHOOSE k \in DOMAIN api_keys : api_keys[k].key_hash = h

HashKnown(h) == \E k \in DOMAIN api_keys : api_keys[k].key_hash = h

OrgOfHash(h) == organizations[api_keys[KeyOfHash(h)].organization_id]

\* the organization's tier row is resolvable
TierResolved(org) == \E t \in org.subscription_tier_id : t \in TierIds

\* the monthly token limit of the organization's tier, when it has one
LimitOf(org) ==
    UNION {subscription_tiers[t].monthly_token_limit :
              t \in org.subscription_tier_id \cap TierIds}

\* the tokens of one day of an organization, over all sources and endpoints
DayTokens(o, d) ==
    SumOver([p \in Sources \X Endpoints |->
                IF UsageKey(o, d, p[1], p[2]) \in DOMAIN usage_daily
                THEN usage_daily[UsageKey(o, d, p[1], p[2])].tokens_used
                ELSE 0],
            Sources \X Endpoints)

RECURSIVE TokensFrom(_, _)
TokensFrom(o, d) ==
    IF d > MaxDay + DaysPerMonth THEN 0
    ELSE DayTokens(o, d) + TokensFrom(o, d + 1)

\* the tokens counted for the current month: the rows dated on or after its
\* first day
MonthTokens(o) == TokensFrom(o, (now \div DaysPerMonth) * DaysPerMonth)

\* the six checks in their fixed order; Null stands for Allowed
ExpectedReason(h) ==
    IF ~HashKnown(h) THEN Some("invalid_key")
    ELSE LET key == api_keys[KeyOfHash(h)]
             org == OrgOfHash(h)
         IN  IF key.is_active = Some(FALSE) THEN Some("key_disabled")
             ELSE IF key.expires_at # Null /\ (\A e \in key.expires_at : e < now)
             THEN Some("key_expired")
             ELSE IF org.status \notin {Null, Some("active")}
             THEN {"organization_" \o s : s \in org.status}
             ELSE IF org.subscription_status \notin {Some("active"), Some("trialing")}
             THEN Some("subscription_inactive")
             ELSE IF \E l \in LimitOf(org) : MonthTokens(key.organization_id) >= l
             THEN Some("quota_exceeded")
             ELSE Null

\* C1: for every stored state and every presented hash, validate returns the
\* reason of the first of the six checks that matches, and Allowed exactly
\* when none matches.
C1_FirstMatchWins ==
    \A c \in result :
        /\ c.ret.rejection_reason = ExpectedReason(c.hash)
        /\ c.ret.is_valid <=> (ExpectedReason(c.hash) = Null)

\* C1 on the stored states whose subscription_status is present: there the
\* code's order of checks is the contract's order.
C1_FirstMatchWins_StatusPresent ==
    \A h \in Hashes :
        (HashKnown(h) => OrgOfHash(h).subscription_status # Null)
            => /\ validate_api_key(h).rejection_reason = ExpectedReason(h)
               /\ validate_api_key(h).is_valid <=> (ExpectedReason(h) = Null)

\* C2: an existing key with is_active = false is rejected with key_disabled,
\* whatever its expiry, organization, subscription, tier and usage.
C2_DisabledKeyRejected ==
    \A h \in Hashes :
        (HashKnown(h) /\ api_keys[KeyOfHash(h)].is_active = Some(FALSE))
            => /\ ~validate_api_key(h).is_valid
               /\ validate_api_key(h).rejection_reason = Some("key_disabled")

\* a disabled, expired key of a paused organization over its quota was
\* presented and rejected as key_disabled
C2_Witness ==
    \E c \in result :
        /\ c.hash = "h1"
        /\ api_keys["k1"].is_active = Some(FALSE)
        /\ \E e \in api_keys["k1"].expires_at : e < now
        /\ organizations["o1"].status = Some("paused")
        /\ organizations["o1"].subscription_status = Some("canceled")
        /\ \E l \in LimitOf(organizations["o1"]) : MonthTokens("o1") >= l
        /\ c.ret.rejection_reason = Some("key_disabled")

\* C3: an existing key with is_active = true whose expires_at is set and in
\* the past is rejected with key_expired, whatever the organization,
\* subscription, tier and usage; a key without expires_at is never rejected
\* as key_expired.
C3_ExpiredKeyRejected ==
    \A h \in Hashes :
        HashKnown(h) =>
            LET key == api_keys[KeyOfHash(h)]
            IN  /\ (key.is_active = Some(TRUE) /\ \E e \in key.expires_at : e < now)
                      => /\ ~validate_api_key(h).is_valid
                         /\ validate_api_key(h).rejection_reason = Some("key_expired")
                /\ key.expires_at = Null
                      => validate_api_key(h).rejection_reason # Some("key_expired")

\* an active key past its expiry, of a revoked organization over its quota,
\* was presented and rejected as key_expired
C3_Witness ==
    \E c \in result :
        /\ c.hash = "h1"
        /\ api_keys["k1"].is_active = Some(TRUE)
        /\ \E e \in api_keys["k1"].expires_at : e < now
        /\ organizations["o1"].status = Some("revoked")
        /\ \E l \in LimitOf(organizations["o1"]) : MonthTokens("o1") >= l
        /\ c.ret.rejection_reason = Some("key_expired")

\* C4: every active, unexpired key of an organization whose status is paused,
\* suspended or revoked is rejected with organization_<status>, even with an
\* active subscription and no usage.
C4_OrgStatusRejected ==
    \A h \in Hashes :
        HashKnown(h) =>
            LET key == api_keys[KeyOfHash(h)]
                org == OrgOfHash(h)
            IN  \A s \in {"paused", "suspended", "revoked"} :
                    ( /\ org.status = Some(s)
                      /\ key.is_active = Some(TRUE)
                      /\ \A e \in key.expires_at : ~(e < now) )
                        => /\ ~validate_api_key(h).is_valid
                           /\ validate_api_key(h).rejection_reason
                                 = Some("organization_" \o s)

\* both keys of a suspended organization with an active subscription are
\* active and unexpired, and one was presented and rejected
C4_Witness ==
    \E c \in result :
        /\ c.hash = "h2"
        /\ organizations["o1"].status = Some("suspended")
        /\ organizations["o1"].subscription_status = Some("active")
        /\ organizations["o1"].subscription_tier_id = Some("enterprise")
        /\ api_keys["k1"].is_active = Some(TRUE)
        /\ api_keys["k1"].expires_at = Null
        /\ api_keys["k2"].is_active = Some(TRUE)
        /\ c.ret.rejection_reason = Some("organization_suspended")

\* C5: while an organization's status is not active, or its
\* subscription_status is not one of active and trialing, validate returns
\* Allowed for no key of that organization; an active unexpired key of an
\* active organization that is past_due or canceled gets subscription_inactive.
\* (An absent status counts as active: the organizations.status default.)
C5_OrgGateBlocksAllKeys ==
    \A c \in result :
        HashKnown(c.hash) =>
            LET key == api_keys[KeyOfHash(c.hash)]
                org == OrgOfHash(c.hash)
            IN  /\ ( \/ org.status \notin {Null, Some("active")}
                     \/ org.subscription_status
                           \notin {Some("active"), Some("trialing")} )
                       => ~c.ret.is_valid
                /\ ( /\ key.is_active = Some(TRUE)
                     /\ \A e \in key.expires_at : ~(e < now)
                     /\ org.status = Some("active")
                     /\ org.subscription_status
                           \in {Some("past_due"), Some("canceled")} )
                       => c.ret.rejection_reason = Some("subscription_inactive")

\* C5 on the organizations whose subscription_status is present
C5_OrgGateBlocksAllKeys_StatusPresent ==
    \A h \in Hashes :
        (HashKnown(h) /\ OrgOfHash(h).subscription_status # Null) =>
            LET org == OrgOfHash(h)
            IN  ( \/ org.status \notin {Null, Some("active")}
                  \/ org.subscription_status
                        \notin {Some("active"), Some("trialing")} )
                    => ~validate_api_key(h).is_valid

\* the key passes checks 1 to 5 of validate
PassesChecks1to5(h) ==
    validate_api_key(h).rejection_reason \in {Null, Some("quota_exceeded")}

\* C6: a key that passes checks 1-5 is rejected with quota_exceeded exactly
\* when the organization's tier has a monthly token limit and the month's
\* tokens have reached it; below the limit it is Allowed and the result
\* carries the limit; without a limit it is Allowed for any usage.
C6_QuotaBoundary ==
    \A h \in Hashes :
        (HashKnown(h) /\ PassesChecks1to5(h)) =>
            LET org == OrgOfHash(h)
                used == MonthTokens(api_keys[KeyOfHash(h)].organization_id)
                ret == validate_api_key(h)
            IN  /\ (ret.rejection_reason = Some("quota_exceeded"))
                      <=> (\E l \in LimitOf(org) : used >= l)
                /\ (\E l \in LimitOf(org) : used < l)
                      => ret.is_valid /\ ret.monthly_limit = LimitOf(org)
                /\ LimitOf(org) = Null => ret.is_valid

\* a key of a free-tier organization was Allowed one token below the limit
C6_Witness ==
    \E c \in result :
        /\ c.hash = "h1"
        /\ organizations["o1"].subscription_tier_id = Some("free")
        /\ MonthTokens("o1") = 999
        /\ c.ret.is_valid
        /\ c.ret.monthly_limit = Some(1000)

\* the same key is rejected when a second row brings the month to the limit
C6_WitnessAtLimit ==
    \E c \in result :
        /\ c.hash = "h1"
        /\ organizations["o1"].subscription_tier_id = Some("free")
        /\ MonthTokens("o1") = 1000
        /\ Cardinality({r \in DOMAIN usage_daily :
                           r.organization_id = "o1" /\ r.date >= now}) = 2
        /\ c.ret.rejection_reason = Some("quota_exceeded")

\* C7: an Allowed result carries the key's rate_limit_override when the key
\* has one, and otherwise the rate_limit_per_minute of the organization's
\* tier.
C7_EffectiveRateLimit ==
    \A c \in result :
        c.ret.is_valid =>
            LET key == api_keys[KeyOfHash(c.hash)]
                org == OrgOfHash(c.hash)
            IN  IF key.rate_limit_override # Null
                THEN c.ret.rate_limit = key.rate_limit_override
                ELSE \E t \in org.subscription_tier_id \cap TierIds :
                        c.ret.rate_limit
                            = Some(subscription_tiers[t].rate_limit_per_minute)

\* C7 on the organizations whose tier row is resolvable
C7_EffectiveRateLimit_TierResolved ==
    \A h \in Hashes :
        (HashKnown(h) /\ validate_api_key(h).is_valid
            /\ TierResolved(OrgOfHash(h))) =>
            LET key == api_keys[KeyOfHash(h)]
                org == OrgOfHash(h)
                ret == validate_api_key(h)
            IN  IF key.rate_limit_override # Null
                THEN ret.rate_limit = key.rate_limit_override
                ELSE \E t \in org.subscription_tier_id \cap TierIds :
                        ret.rate_limit
                            = Some(subscription_tiers[t].rate_limit_per_minute)

\* C8: validate fails closed: an existing active unexpired key whose
\* organization has no resolvable tier row is never Allowed, and when the
\* organization passes the status and subscription checks it is rejected
\* with invalid_key.
C8_FailsClosed ==
    \A c \in result :
        HashKnown(c.hash) =>
            LET key == api_keys[KeyOfHash(c.hash)]
                org == OrgOfHash(c.hash)
            IN  ( /\ key.is_active = Some(TRUE)
                  /\ \A e \in key.expires_at : ~(e < now)
                  /\ ~TierResolved(org) )
                    => /\ ~c.ret.is_valid
                       /\ ( /\ org.status \in {Null, Some("active")}
                            /\ org.subscription_status
                                  \in {Some("active"), Some("trialing")} )
                              => c.ret.rejection_reason = Some("invalid_key")

(* ------------------------- quota within a month ------------------------ *)

Month(d) == d \div DaysPerMonth

\* the month's tokens of the organization have reached the limit of its tier
QuotaReached(o) == \E l \in LimitOf(organizations[o]) : MonthTokens(o) >= l

LedgerTokens ==
    SumOver([r \in DOMAIN ledger |-> ledger[r].tokens], DOMAIN ledger)

\* the organization has a row dated after today
FutureRows(o) ==
    \E r \in DOMAIN usage_daily : r.organization_id = o /\ r.date > now

\* C9 as stated: once a key is rejected with quota_exceeded, every later
\* validate for it in the same calendar month returns quota_exceeded, whatever
\* validate, recordUsage, key revoke, pause, resume, revoke and change tier
\* are interleaved; and when the month rolls over the monthly usage is 0.
C9_QuotaMonotonicAnyInterleaving ==
    [][ /\ \A k \in DOMAIN api_keys :
              ( /\ validate_api_key(api_keys[k].key_hash).rejection_reason
                      = Some("quota_exceeded")
                /\ Month(now') = Month(now) )
                  => validate_api_key(api_keys[k].key_hash)'.rejection_reason
                        = Some("quota_exceeded")
        /\ Month(now') # Month(now)
              => \A o \in DOMAIN organizations :
                    get_org_monthly_usage(o)'.total_tokens = 0
      ]_vars

\* C9 (amended): within a calendar month, a step that neither changes the
\* organization's tier nor records a negative tokenDelta keeps a reached quota
\* reached, and while it is reached validate returns Allowed for no key of the
\* organization and quota_exceeded for every key that passes checks 1-5; when
\* the month rolls over, the monthly usage of an organization without rows
\* dated after the last day of the old month is {0, 0}.
C9_QuotaMonotonic ==
    [][ /\ \A o \in DOMAIN organizations :
              ( /\ QuotaReached(o)
                /\ Month(now') = Month(now)
                /\ organizations'[o].subscription_tier_id
                      = organizations[o].subscription_tier_id
                /\ LedgerTokens' >= LedgerTokens )
                  => /\ QuotaReached(o)'
                     /\ \A k \in DOMAIN api_keys' :
                           api_keys'[k].organization_id = o =>
                             LET ret == validate_api_key(api_keys[k].key_hash)'
                             IN  /\ ~ret.is_valid
                                 /\ ret.rejection_reason
                                       \in {Some("key_disabled"), Some("key_expired"),
                                            Some("organization_paused"),
                                            Some("organization_suspended"),
                                            Some("organization_revoked"),
                                            Some("subscription_inactive"),
                                            Some("quota_exceeded")}
                                 /\ ( /\ api_keys'[k].is_active = Some(TRUE)
                                      /\ \A e \in api_keys'[k].expires_at : ~(e < now')
                                      /\ organizations'[o].status = Some("active")
                                      /\ organizations'[o].subscription_status
                                            \in {Some("active"), Some("trialing")} )
                                       => ret.rejection_reason = Some("quota_exceeded")
        /\ \A o \in DOMAIN organizations :
              (Month(now') # Month(now) /\ ~FutureRows(o))
                  => get_org_monthly_usage(o)'
                        = [total_requests |-> 0, total_tokens |-> 0]
      ]_vars

\* after the quota was reached, a day passed and usage was recorded once more,
\* the key is still rejected with quota_exceeded
C9_Witness ==
    \E c \in result :
        /\ c.hash = "h1"
        /\ c.ret.rejection_reason = Some("quota_exceeded")
        /\ QuotaReached("o1")
        /\ MonthTokens("o1") > 1000
        /\ now = 1
        /\ organizations["o1"].status = Some("active")

\* the month rolled over and the usage recorded in the old month counts no more
C9_WitnessRollover ==
    /\ Month(now) = 1
    /\ \E r \in DOMAIN usage_daily : r.organization_id = "o1" /\ usage_daily[r].tokens_used >= 1000
    /\ get_org_monthly_usage("o1").total_tokens = 0
    /\ \E c \in result : c.hash = "h1" /\ c.ret.is_valid

(* --------------------------- no lost updates --------------------------- *)

\* the deltas of the calls for a row key that are issued and not yet executed
PendingRequests(key) ==
    SumOver([i \in DOMAIN inflight |->
                IF UsageKey(inflight[i].org_id, inflight[i].date,
                            inflight[i].source, inflight[i].endpoint) = key
                THEN inflight[i].requests ELSE 0],
            DOMAIN inflight)

PendingTokens(key) ==
    SumOver([i \in DOMAIN inflight |->
                IF UsageKey(inflight[i].org_id, inflight[i].date,
                            inflight[i].source, inflight[i].endpoint) = key
                THEN inflight[i].tokens ELSE 0],
            DOMAIN inflight)

\* C10: recordUsage loses no update: for every row key of an existing
\* organization the stored counters plus the deltas of the calls still in
\* flight equal the sums of the deltas of all calls issued, in whatever order
\* the calls execute; so with nothing in flight the row holds exactly the sums
\* (N and N after N calls with deltas 1 and 1).
C10_NoLostUpdates ==
    \A key \in DOMAIN ledger :
        key.organization_id \in DOMAIN organizations =>
            LET row == IF key \in DOMAIN usage_daily
                       THEN usage_daily[key]
                       ELSE [request_count |-> 0, tokens_used |-> 0]
            IN  /\ row.request_count + PendingRequests(key) = ledger[key].requests
                /\ row.tokens_used + PendingTokens(key) = ledger[key].tokens
                /\ (\A i \in DOMAIN inflight :
                        UsageKey(inflight[i].org_id, inflight[i].date,
                                 inflight[i].source, inflight[i].endpoint) # key)
                      => key \in DOMAIN usage_daily

\* MaxCalls concurrent calls with deltas 1 and 1 on one row key have all
\* executed, and the row holds MaxCalls and MaxCalls
C10_Witness ==
    LET key == UsageKey("o1", 0, "api", "/lookup")
    IN  /\ inflight = <<>>
        /\ key \in DOMAIN ledger
        /\ ledger[key] = [calls |-> MaxCalls, requests |-> MaxCalls, tokens |-> MaxCalls]
        /\ key \in DOMAIN usage_daily
        /\ usage_daily[key] = [request_count |-> MaxCalls, tokens_used |-> MaxCalls]

(* ----------------------- one row per combination ----------------------- *)

\* the recordUsage calls this step executed
ExecutedCalls == {inflight[i] : i \in DOMAIN inflight \ DOMAIN inflight'}

\* the combination a call names
Combination(c) ==
    [organization_id |-> c.org_id, date |-> c.date,
     source |-> c.source, endpoint |-> c.endpoint]

\* C11: usage_daily holds one row per (organization, date, source, endpoint):
\* an executed recordUsage call for a combination without row inserts the row
\* with the call's deltas, a call for a combination with a row adds its deltas
\* to that row and inserts nothing, and every row of another combination is
\* left as it was; the table never has more rows than combinations were named.
C11_OneRowPerCombination ==
    [][ \A c \in ExecutedCalls :
            c.org_id \in DOMAIN organizations =>
                LET key == Combination(c)
                IN  /\ DOMAIN usage_daily' = DOMAIN usage_daily \cup {key}
                    /\ key \notin DOMAIN usage_daily
                          => usage_daily'[key] = [request_count |-> c.requests,
                                                  tokens_used |-> c.tokens]
                    /\ key \in DOMAIN usage_daily
                          => usage_daily'[key] =
                                [request_count |-> usage_daily[key].request_count
                                                      + c.requests,
                                 tokens_used |-> usage_daily[key].tokens_used
                                                      + c.tokens]
                    /\ \A r \in DOMAIN usage_daily \ {key} :
                          usage_daily'[r] = usage_daily[r]
                    /\ Cardinality(DOMAIN usage_daily')
                          <= Cardinality(DOMAIN ledger')
      ]_vars

\* all but one of MaxCalls calls named one combination, the last one another
\* source of the same organization and day: two rows
C11_Witness ==
    LET a == UsageKey("o1", 0, "api", "/lookup")
        b == UsageKey("o1", 0, "mcp", "/lookup")
    IN  /\ inflight = <<>>
        /\ DOMAIN ledger = {a, b}
        /\ ledger[a].calls = MaxCalls - 1
        /\ ledger[b].calls = 1
        /\ DOMAIN usage_daily = {a, b}
        /\ usage_daily[a].request_count = ledger[a].requests
        /\ usage_daily[b].tokens_used = ledger[b].tokens

(* -------------------------- counters over time ------------------------- *)

\* C12: across every recordUsage call, with whatever deltas the function
\* accepts, every usage_daily row stays and its request_count and tokens_used
\* do not decrease.
C12_CountersNeverDecrease ==
    [][ \A r \in DOMAIN usage_daily :
            /\ r \in DOMAIN usage_daily'
            /\ usage_daily'[r].request_count >= usage_daily[r].request_count
            /\ usage_daily'[r].tokens_used >= usage_daily[r].tokens_used
      ]_vars

\* C12 for the calls whose deltas are not negative
C12_CountersNeverDecrease_NonNegativeDeltas ==
    [][ (\A c \in ExecutedCalls : c.requests >= 0 /\ c.tokens >= 0)
            => \A r \in DOMAIN usage_daily :
                  /\ r \in DOMAIN usage_daily'
                  /\ usage_daily'[r].request_count >= usage_daily[r].request_count
                  /\ usage_daily'[r].tokens_used >= usage_daily[r].tokens_used
      ]_vars

(* ------------------------- the monthly sums ---------------------------- *)

\* the requests of one day of an organization, over all sources and endpoints
DayRequests(o, d) ==
    SumOver([p \in Sources \X Endpoints |->
                IF UsageKey(o, d, p[1], p[2]) \in DOMAIN usage_daily
                THEN usage_daily[UsageKey(o, d, p[1], p[2])].request_count
                ELSE 0],
            Sources \X Endpoints)

RECURSIVE RequestsFrom(_, _)
RequestsFrom(o, d) ==
    IF d > MaxDay + DaysPerMonth THEN 0
    ELSE DayRequests(o, d) + RequestsFrom(o, d + 1)

\* the requests counted for the current month
MonthRequests(o) == RequestsFrom(o, (now \div DaysPerMonth) * DaysPerMonth)

\* C13: for every organization, get_org_monthly_usage returns the sums of
\* request_count and tokens_used over its rows dated on or after the first day
\* of the current month, day by day; rows of other organizations and rows of
\* earlier months add nothing, and without such a row the result is {0, 0}.
C13_MonthlyUsageSums ==
    \A o \in OrgIds :
        /\ get_org_monthly_usage(o)
              = [total_requests |-> MonthRequests(o), total_tokens |-> MonthTokens(o)]
        /\ (\A r \in DOMAIN usage_daily :
                r.organization_id # o \/ Month(r.date) < Month(now))
              => get_org_monthly_usage(o) = [total_requests |-> 0, total_tokens |-> 0]

\* in the second month "o1" has a row of the first month and one row of the
\* second, and only the second is counted; "o2" has no row at all
C13_Witness ==
    /\ Month(now) = 1
    /\ \E r \in DOMAIN usage_daily :
          /\ r.organization_id = "o1"
          /\ Month(r.date) = 0
          /\ usage_daily[r].tokens_used >= StartTokens
    /\ \E r \in DOMAIN usage_daily :
          /\ r.organization_id = "o1"
          /\ Month(r.date) = 1
          /\ usage_daily[r] = [request_count |-> 1, tokens_used |-> 1]
    /\ get_org_monthly_usage("o1") = [total_requests |-> 1, total_tokens |-> 1]
    /\ get_org_monthly_usage("o2") = [total_requests |-> 0, total_tokens |-> 0]

(* ------------------------- what validate writes ------------------------ *)

\* C14: a validate call that rejects changes no row of api_keys,
\* organizations and usage_daily, and a call that allows changes nothing but
\* last_used_at of the key the hash matches, which becomes the current time
\* (subscription_tiers is the same in every state).  Every step of this
\* specification is one validate call, whose return value is result'.
C14_ValidateWritesLastUsedAtOnly ==
    [][ \E c \in result' :
            /\ organizations' = organizations
            /\ usage_daily' = usage_daily
            /\ ~c.ret.is_valid => api_keys' = api_keys
            /\ c.ret.is_valid
                  => /\ HashKnown(c.hash)
                     /\ api_keys' = [api_keys EXCEPT
                                       ![KeyOfHash(c.hash)].last_used_at = Some(now)]
      ]_vars

\* the key "k1" was allowed and carries the current time, the other key of
\* the same organization was never written
C14_Witness ==
    \E c \in result :
        /\ c.hash = "h1"
        /\ c.ret.is_valid
        /\ api_keys["k1"].last_used_at = Some(now)
        /\ api_keys["k2"].organization_id = api_keys["k1"].organization_id
        /\ api_keys["k2"].is_active = Some(TRUE)
        /\ api_keys["k2"].last_used_at = Null

(* ------------------- last_used_at under concurrency -------------------- *)

\* the validate transactions this step finished
FinishedValidations ==
    {validating[i] : i \in DOMAIN validating \ DOMAIN validating'}

\* C15: last_used_at of a key only advances: whatever the order in which
\* concurrent validate calls for the key write the time they took as NOW(),
\* a stored last_used_at is never replaced by an earlier one, nor removed.
C15_LastUsedAtAdvances ==
    [][ \A k \in DOMAIN api_keys :
            \A old \in api_keys[k].last_used_at :
                /\ k \in DOMAIN api_keys'
                /\ \E new \in api_keys'[k].last_used_at : new >= old
      ]_vars

(* --------------------------- repeated validate ------------------------- *)

SameMonthUnexpired(v) ==
    /\ HashKnown(v.hash)
    /\ LET key == api_keys[KeyOfHash(v.hash)]
       IN  /\ \A e \in key.expires_at : ~(e < v.started)
           /\ \E t \in key.last_used_at : Month(t) = Month(v.started)

C16_ValidateIdempotentUnexpired ==
    [][ \A v \in FinishedValidations :
            \A c \in result :
                ( /\ c.hash = v.hash /\ c.ret.is_valid /\ HashKnown(v.hash)
                  /\ \A e \in api_keys[KeyOfHash(v.hash)].expires_at :
                        ~(e < v.started) )
                    => \E d \in result' : d.hash = v.hash /\ d.ret = c.ret
      ]_vars

RejectionReasons ==
    {"invalid_key", "key_disabled", "key_expired", "organization_paused",
     "organization_suspended", "organization_revoked", "subscription_inactive",
     "quota_exceeded"}

\* C17: for every hash and every stored state validate returns one row;
\* is_valid is true exactly when rejection_reason is absent; a rejection_reason
\* is one of the eight reasons; and a hash no key row carries is rejected with
\* invalid_key.
C17_DecisionAsData ==
    \A h \in Hashes :
        /\ Cardinality(KeysWithHash(h)) <= 1
        /\ LET ret == validate_api_key(h)
           IN  /\ ret.is_valid \in BOOLEAN
               /\ ret.is_valid <=> (ret.rejection_reason = Null)
               /\ \A r \in ret.rejection_reason : r \in RejectionReasons
               /\ Cardinality(ret.rejection_reason) <= 1
               /\ ~HashKnown(h)
                     => ret.rejection_reason = Some("invalid_key")
        /\ \A c \in result :
              /\ c.ret.is_valid <=> (c.ret.rejection_reason = Null)
              /\ \A r \in c.ret.rejection_reason : r \in RejectionReasons

\* a hash that no key row carries was presented and rejected with invalid_key
C17_Witness ==
    \E c \in result :
        /\ c.hash = "h3"
        /\ ~HashKnown("h3")
        /\ ~c.ret.is_valid
        /\ c.ret.rejection_reason = Some("invalid_key")
        /\ c.ret.api_key_id = Null

(* ----------------------- recordUsage and its errors -------------------- *)

\* C18: an executed recordUsage call returns without raising, whether or not
\* its upsert could be applied, and a call whose organization does not exist
\* leaves usage_daily as it was.
C18_RecordUsageNeverFails ==
    [][\A c \in ExecutedCalls :
          /\ ru_error' = Null
          /\ c.org_id \notin DOMAIN organizations => usage_daily' = usage_daily]_vars

\* the second half alone: a call that cannot be applied changes no row
C18_RejectedWriteChangesNothing ==
    [][\A c \in ExecutedCalls :
          c.org_id \notin DOMAIN organizations => usage_daily' = usage_daily]_vars

(* ----------------------- a key is never re-activated ------------------- *)

\* the key was revoked or its expiry date has passed
DeadKey(k) ==
    \/ api_keys[k].is_active = Some(FALSE)
    \/ KeyExpired(api_keys[k], now)

\* validate does not return Allowed for the hash of a dead key
DeadKeyRejected(h) ==
    \A k \in DOMAIN api_keys :
        api_keys[k].key_hash = h /\ DeadKey(k) => ~validate_api_key(h).is_valid

\* C19: across every step of createKey, revokeKey, validate, recordUsage, the
\* admin's pause, resume, revoke and change of tier, and the passing of time, a
\* key row stays, is_active never goes from false to true, a key that was
\* revoked or has expired stays so, validate writes no lastUsedAt for it, and
\* in every state reached validate does not return Allowed for such a key.
C19_KeyNeverReactivated ==
    [][/\ \A k \in DOMAIN api_keys :
             /\ k \in DOMAIN api_keys'
             /\ api_keys[k].is_active = Some(FALSE)
                   => api_keys'[k].is_active = Some(FALSE)
             /\ DeadKey(k)
                   => /\ DeadKey(k)'
                      /\ api_keys'[k].last_used_at = api_keys[k].last_used_at
                      /\ \A c \in result' :
                            c.hash = api_keys[k].key_hash /\ result' # result
                               => ~c.ret.is_valid
       /\ \A h \in Hashes : DeadKeyRejected(h)']_vars

\* a revoked key was validated and rejected after a second key was created,
\* usage was recorded and an admin paused the organization
C19_Witness ==
    /\ "k2" \in DOMAIN api_keys
    /\ api_keys["k1"].is_active = Some(FALSE)
    /\ usage_daily # <<>>
    /\ organizations["o1"].status = Some("paused")
    /\ \E c \in result :
          /\ c.hash = api_keys["k1"].key_hash
          /\ c.ret.rejection_reason = Some("key_disabled")

\* an expired key was validated and rejected after the same operations
C19_WitnessExpired ==
    /\ "k2" \in DOMAIN api_keys
    /\ api_keys["k1"].is_active = Some(TRUE)
    /\ KeyExpired(api_keys["k1"], now)
    /\ usage_daily # <<>>
    /\ organizations["o1"].status = Some("paused")
    /\ \E c \in result :
          /\ c.hash = api_keys["k1"].key_hash
          /\ c.ret.rejection_reason = Some("key_expired")

(* --------------------------- keys as created --------------------------- *)

\* C20: a step that adds a key row adds one row, for the user who is then shown
\* the raw key: the row is active, has no expiry date, no rate limit override
\* and no last use, belongs to the one organization that user owns, holds the
\* SHA-256 digest of the raw key and, of the raw key itself, only its first
\* characters in key_prefix, never the raw key; the other rows stay as they
\* were. A raw key is shown only if its digest was in no row, a createKey that
\* logs an error leaves api_keys unchanged, and no two rows share a key_hash.
C20_CreatedKeyStartsActive ==
    [][/\ DOMAIN api_keys' # DOMAIN api_keys
             => \E k \in DOMAIN api_keys' \ DOMAIN api_keys, u \in Users, f \in RawKeys :
                   /\ DOMAIN api_keys' = DOMAIN api_keys \cup {k}
                   /\ keys_page'[u].newKey = Some(f)
                   /\ k \in DOMAIN keys_page'[u].keys
                   /\ \A v \in Users \ {u} : keys_page'[v] = keys_page[v]
                   /\ ~HashKnown(SHA256(f))
                   /\ api_keys'[k].is_active = Some(TRUE)
                   /\ api_keys'[k].expires_at = Null
                   /\ api_keys'[k].rate_limit_override = Null
                   /\ api_keys'[k].last_used_at = Null
                   /\ OwnedOrgs(u) = {api_keys'[k].organization_id}
                   /\ api_keys'[k].key_hash = SHA256(f)
                   /\ api_keys'[k].key_prefix = KeyPrefix(f)
                   /\ api_keys'[k].key_prefix # f
                   /\ api_keys'[k].environment = f.env
                   /\ \A j \in DOMAIN api_keys : api_keys'[j] = api_keys[j]
       /\ \A u \in Users :
             /\ keys_page'[u].errors # keys_page[u].errors => api_keys' = api_keys
             /\ keys_page'[u].newKey # keys_page[u].newKey
                   => DOMAIN api_keys' # DOMAIN api_keys
       /\ \A a, b \in DOMAIN api_keys' :
             api_keys'[a].key_hash = api_keys'[b].key_hash => a = b]_vars

\* u2 created a key for its organization and was shown the raw key, and a
\* createKey of u1 for a raw key whose digest a row already held was refused
C20_Witness ==
    /\ "k2" \in DOMAIN api_keys
    /\ api_keys["k2"].organization_id = "o2"
    /\ \E f \in RawKeys :
          /\ keys_page["u2"].newKey = Some(f)
          /\ api_keys["k2"].key_hash = SHA256(f)
          /\ api_keys["k2"].key_prefix = KeyPrefix(f)
    /\ api_keys["k2"].is_active = Some(TRUE)
    /\ keys_page["u1"].errors # {}
    /\ keys_page["u1"].newKey = Null

(* ------------------- the organization status machine ------------------- *)

\* the status the gate and the dashboard take a row to have: absent is active
StatusOf(o) ==
    IF organizations[o].status = Null
    THEN "active"
    ELSE CHOOSE s \in organizations[o].status : TRUE

\* the transitions of the state machine
StatusTransitions ==
    {<<"active", "paused">>, <<"paused", "active">>,
     <<"active", "suspended">>, <<"suspended", "active">>}
       \cup {<<s, "revoked">> : s \in OrgStatuses}

\* C21: every change of an organization's status is a transition of the state
\* machine, and a revoked organization stays revoked, whichever admin session
\* pauses, resumes or revokes, also from a list loaded before the last change.
C21_StatusMachine ==
    [][\A o \in DOMAIN organizations :
          /\ StatusOf(o)' # StatusOf(o) => <<StatusOf(o), StatusOf(o)'>> \in StatusTransitions
          /\ StatusOf(o) = "revoked" => StatusOf(o)' = "revoked"]_vars

(* ---------------------- pause and resume round trip -------------------- *)

\* the hashes of the keys of an organization
HashesOf(o) == {api_keys[k].key_hash : k \in {j \in DOMAIN api_keys : api_keys[j].organization_id = o}}

\* a step that pauses organization o
PauseStep(o) == StatusOf(o) = "active" /\ StatusOf(o)' = "paused"

\* a step that resumes organization o
ResumeStep(o) == StatusOf(o) = "paused" /\ StatusOf(o)' = "active"

\* resume restores the row: status active and the pause columns cleared
ResumeRestores(o) ==
    ResumeStep(o)
       => /\ organizations'[o].status = Some("active")
          /\ organizations'[o].paused_at = Null
          /\ organizations'[o].paused_by = Null
          /\ organizations'[o].pause_reason = Null

\* with nothing changed but pauses and resumes, a validate of a hash while the
\* organization is active returns what the last validate of that hash returned
\* while it was active
SameResultWhenActive(o) ==
    \A c \in result, d \in result' :
        ( /\ c.hash = d.hash
          /\ StatusOf(o) = "active"
          /\ c.ret.rejection_reason # Some("organization_paused") )
           => d.ret = c.ret

\* C22 as stated: after handlePause every key of the organization is rejected
\* with organization_paused; after handleResume the status is active, the pause
\* columns are cleared and validate returns what it returned before the pause.
C22_PauseResumeRoundTrip ==
    [][\A o \in DOMAIN organizations :
          /\ PauseStep(o)
                => \A h \in HashesOf(o) :
                      validate_api_key(h)'.rejection_reason = Some("organization_paused")
          /\ ResumeRestores(o)
          /\ SameResultWhenActive(o)]_vars

\* C22, amended: after handlePause every key of the organization is rejected,
\* with organization_paused when the key is active and not expired and with
\* key_disabled or key_expired otherwise; after handleResume the status is
\* active, the pause columns are cleared and validate returns what it returned
\* before the pause.
C22_PauseResumeRoundTripOfUsableKeys ==
    [][\A o \in DOMAIN organizations :
          /\ PauseStep(o)
                => \A k \in DOMAIN api_keys :
                      api_keys[k].organization_id = o
                         => LET ret == validate_api_key(api_keys[k].key_hash)'
                            IN  /\ ~ret.is_valid
                                /\ ret.rejection_reason =
                                      IF KeyDisabled(api_keys[k]) THEN Some("key_disabled")
                                      ELSE IF KeyExpired(api_keys[k], now) THEN Some("key_expired")
                                      ELSE Some("organization_paused")
          /\ ResumeRestores(o)
          /\ SameResultWhenActive(o)]_vars

\* the organization was paused, which a second session saw, and resumed, and
\* a key then validated as Allowed
C22_Witness ==
    /\ "admin2" \in DOMAIN org_list
    /\ org_list["admin2"]["o1"].status = Some("paused")
    /\ organizations["o1"].status = Some("active")
    /\ organizations["o1"].paused_at = Null
    /\ \E c \in result : c.hash = "h2" /\ c.ret.is_valid

(* ------------------------------ the audit log -------------------------- *)

\* the audit action that goes with a new status
ActionOfStatus(s) ==
    CASE s = Some("paused") -> "pause_organization"
      [] s = Some("active") -> "resume_organization"
      [] s = Some("revoked") -> "revoke_organization"
      [] OTHER -> "none"

\* the rows of admin_audit_log are kept as they are
AuditEntriesKept ==
    /\ Len(admin_audit_log') >= Len(admin_audit_log)
    /\ \A i \in 1..Len(admin_audit_log) : admin_audit_log'[i] = admin_audit_log[i]

\* C23: a step that changes organizations.status appends exactly one row to
\* admin_audit_log, with the action of the new status and the organization as
\* target; a step that changes no status appends no such row; no row is ever
\* changed or removed.
C23_StatusChangesAudited ==
    [][/\ \A o \in DOMAIN organizations :
             organizations'[o].status # organizations[o].status
                => /\ Len(admin_audit_log') = Len(admin_audit_log) + 1
                   /\ admin_audit_log'[Len(admin_audit_log')].action
                         = ActionOfStatus(organizations'[o].status)
                   /\ admin_audit_log'[Len(admin_audit_log')].target_id = o
       /\ (\A o \in DOMAIN organizations :
              organizations'[o].status = organizations[o].status)
             => \A i \in (Len(admin_audit_log) + 1)..Len(admin_audit_log') :
                   admin_audit_log'[i].action
                      \notin {"pause_organization", "resume_organization",
                              "revoke_organization"}
       /\ AuditEntriesKept]_vars

\* the last part alone: no row of admin_audit_log is changed or removed
C23_AuditEntriesNeverChanged == [][AuditEntriesKept]_vars

(* ------------------------ who may change an organization --------------- *)

\* the roles a session can hold, NULL (no admin_users row) included
SessionRoles == {Null, Some("support"), Some("admin"), Some("super_admin")}

\* one of the status and tier handlers, run by the session of `user`
HandlerStep(user) ==
    \/ handlePause(user, "o1", "maintenance")
    \/ handleResume(user, "o1")
    \/ handleRevoke(user, "o1", "abuse")
    \/ \E t \in TierIds : handleChangeTier(user, "o1", t)

\* the page's canManage and the database's is_admin give the same answer
RolesAgree ==
    /\ {AdminRole(u) : u \in Users} = SessionRoles
    /\ \A u \in Users :
          /\ canManage(AdminRole(u)) <=> is_admin(u, "admin")
          /\ canManage(AdminRole(u)) <=> AdminRole(u) \in {Some("super_admin"), Some("admin")}
          /\ is_admin(u, "super_admin") <=> AdminRole(u) = Some("super_admin")
          /\ isSuperAdmin(AdminRole(u)) <=> is_admin(u, "super_admin")

\* C24: an organization row changes only in a handler step of a session whose
\* role is super_admin or admin; a handler step of a session with role support
\* or with no admin_users row changes no row; canManage(role) agrees with
\* is_admin(user, 'admin') for every role, and is_admin(user, 'super_admin')
\* holds for super_admin only.
C24_StatusAndTierChangesAdminOnly ==
    [][/\ RolesAgree
       /\ organizations' # organizations
             => \E u \in Users :
                   /\ AdminRole(u) \in {Some("super_admin"), Some("admin")}
                   /\ HandlerStep(u)
       /\ \A u \in Users :
             (AdminRole(u) \in {Null, Some("support")} /\ HandlerStep(u))
                => organizations' = organizations]_vars

\* a support session has the page loaded, and a manager has paused the
\* organization and moved it to another tier
C24_Witness ==
    /\ "support1" \in DOMAIN org_list
    /\ organizations["o1"].status = Some("paused")
    /\ organizations["o1"].paused_by = Some("admin2")
    /\ organizations["o1"].subscription_tier_id = Some("enterprise")

(* --------------------- creating organizations -------------------------- *)

\* most rows the organizations table holds
MaxOrgs == 3
\* most fetchOrganizations calls one AuthProvider has in progress
MaxFetching == 2
\* Date.now() values the slugs are built from
Millis == {1, 2}

\* auth.users: the email of each user, as the parts "@" separates
auth_users ==
    ("u1" :> [email |-> Some(<<"pat", "oldcorp.com">>)])
 @@ ("u2" :> [email |-> Null])
 @@ ("admin1" :> [email |-> Some(<<"shaun", "snoopdrive.com">>)])
 @@ ("admin2" :> [email |-> Some(<<"kim", "gmail.com">>)])
 @@ ("support1" :> [email |-> Some(<<"lee", "partner.com">>)])

\* table enterprise_email_domains: the two seed rows, a row of another tier and
\* a row switched off
enterprise_email_domains ==
    {[domain |-> "snoopdrive.com", tier_id |-> Some("enterprise"), is_active |-> Some(TRUE)],
     [domain |-> "driveclub.io", tier_id |-> Some("enterprise"), is_active |-> Some(TRUE)],
     [domain |-> "partner.com", tier_id |-> Some("pro"), is_active |-> Some(TRUE)],
     [domain |-> "oldcorp.com", tier_id |-> Some("enterprise"), is_active |-> Some(FALSE)]}

\* split_part(string, '@', n)
split_part(parts, n) == IF n <= Len(parts) THEN parts[n] ELSE ""

\* the trigger without the is_active condition
auto_assign_enterprise_tier_AnyRow(NEW_row) ==
    LET user_email == IF NEW_row.owner_user_id = Null THEN Null
                      ELSE auth_users[CHOOSE u \in NEW_row.owner_user_id : TRUE].email
    IN  IF user_email = Null THEN NEW_row
        ELSE LET email_domain == split_part(CHOOSE e \in user_email : TRUE, 2)
                 found == {r \in enterprise_email_domains : r.domain = email_domain}
             IN  IF found # {}
                 THEN [NEW_row EXCEPT !.subscription_tier_id = (CHOOSE r \in found : TRUE).tier_id]
                 ELSE NEW_row

\* trigger org_auto_enterprise_tier, BEFORE INSERT ON organizations
auto_assign_enterprise_tier(NEW_row) ==
    LET user_email == IF NEW_row.owner_user_id = Null THEN Null
                      ELSE auth_users[CHOOSE u \in NEW_row.owner_user_id : TRUE].email
    IN  IF user_email = Null THEN NEW_row
        ELSE LET email_domain == split_part(CHOOSE e \in user_email : TRUE, 2)
                 found == {r \in enterprise_email_domains :
                              r.domain = email_domain /\ r.is_active = Some(TRUE)}
             IN  IF found # {}
                 THEN [NEW_row EXCEPT !.subscription_tier_id = (CHOOSE r \in found : TRUE).tier_id]
                 ELSE NEW_row

\* toLowerCase().replace(/[^a-z0-9]+/g, "-")
Slugify(s) ==
    CASE s = "Acme" -> "acme"
      [] s = "My Organization" -> "my-organization"
      [] OTHER -> s

\* newOrgName.trim()
Trim(s) == IF s = " " THEN "" ELSE s

\* the id the next row of organizations gets
NextOrgId == Cardinality(DOMAIN organizations) + 1

\* policy "Users can create organizations": WITH CHECK (owner_user_id = auth.uid())
OrganizationsInsertPolicy(user, row) == row.owner_user_id = Some(user)

\* the insert is refused: by the policy, or by UNIQUE on slug
OrgInsertFails(user, row) ==
    \/ ~OrganizationsInsertPolicy(user, row)
    \/ \E o \in DOMAIN organizations : organizations[o].slug = row.slug

\* insert into organizations: the column defaults, then the trigger
InsertedOrganization(p_name, p_slug, p_owner, p_tier) ==
    auto_assign_enterprise_tier(
        [slug |-> p_slug] @@ NewOrganization(Some(p_name), Some(p_owner), p_tier))

\* admin page: create an organization owned by the admin
handleCreateOrg(user, newOrgName, newOrgTier, ms) ==
    /\ Trim(newOrgName) # ""
    /\ canManage(AdminRole(user))
    /\ newOrgTier \in TierIds
    /\ Cardinality(DOMAIN organizations) < MaxOrgs
    /\ LET row == InsertedOrganization(Trim(newOrgName),
                                       [base |-> Slugify(newOrgName), at |-> ms],
                                       user, Some(newOrgTier))
       IN  IF OrgInsertFails(user, row)
           THEN UNCHANGED <<organizations, admin_audit_log, org_list>>
           ELSE /\ organizations' = (NextOrgId :> row) @@ organizations
                /\ admin_audit_log' =
                      logAdminAction(user, "create_organization", NextOrgId, NoDetails)
                /\ org_list' = [u \in DOMAIN org_list \cup {user} |->
                                   IF u = user THEN LoadedList' ELSE org_list[u]]
    /\ UNCHANGED <<now, api_keys, usage_daily, inflight, ledger, ru_error, result,
                   validating, keys_page, user_invites, organization_members,
                   accepting, auth>>

\* user_metadata.full_name || user_metadata.name || email.split("@")[0]
\* || "My Organization", for users without metadata names
UserName(user) ==
    IF auth_users[user].email = Null THEN "My Organization"
    ELSE (CHOOSE e \in auth_users[user].email : TRUE)[1]

\* `${userName}'s Organization`
OrganizationName(userName) ==
    CASE userName = "pat" -> "pat's Organization"
      [] userName = "lee" -> "lee's Organization"
      [] userName = "shaun" -> "shaun's Organization"
      [] userName = "kim" -> "kim's Organization"
      [] OTHER -> "My Organization's Organization"

\* select ... eq("owner_user_id", user).order("created_at"): the ids, oldest first
RECURSIVE SortedIds(_)
SortedIds(S) ==
    IF S = {} THEN <<>>
    ELSE LET m == CHOOSE x \in S : \A y \in S : x <= y
         IN  <<m>> \o SortedIds(S \ {m})

existingOrgs(user) ==
    SortedIds({o \in DOMAIN organizations : organizations[o].owner_user_id = Some(user)})

RemoveAt(seq, i) == SubSeq(seq, 1, i - 1) \o SubSeq(seq, i + 1, Len(seq))

\* onAuthStateChange callback with a session: setUser, and fetchOrganizations
\* is called; its first query has not been answered yet
onAuthStateChange(user) ==
    /\ Len(auth[user].fetching) < MaxFetching
    /\ auth' = [auth EXCEPT ![user].fetching = Append(@, "select")]
    /\ UNCHANGED <<now, api_keys, organizations, usage_daily, admin_audit_log,
                   org_list, inflight, ledger, ru_error, result, validating,
                   keys_page, user_invites, organization_members, accepting>>

\* fetchOrganizations, the select is answered: with rows, the call returns
\* them and the selection, and .then stores both; without, the call goes on
\* to insert
fetchOrganizations_select(user, i) ==
    /\ i \in 1..Len(auth[user].fetching)
    /\ auth[user].fetching[i] = "select"
    /\ LET storedOrgId == auth[user].stored
           selectedId == IF \E j \in 1..Len(existingOrgs(user)) : Some(existingOrgs(user)[j]) = storedOrgId
                         THEN storedOrgId
                         ELSE Some(existingOrgs(user)[1])
       IN  IF Len(existingOrgs(user)) > 0
           THEN auth' = [auth EXCEPT ![user].organizations = existingOrgs(user),
                                     ![user].organizationId = selectedId,
                                     ![user].fetching = RemoveAt(@, i)]
           ELSE auth' = [auth EXCEPT ![user].fetching[i] = "insert"]
    /\ UNCHANGED <<now, api_keys, organizations, usage_daily, admin_audit_log,
                   org_list, inflight, ledger, ru_error, result, validating,
                   keys_page, user_invites, organization_members, accepting>>

\* fetchOrganizations, the insert is answered: an error returns no
\* organizations, a row returns it as the only and selected organization
fetchOrganizations_insert(user, i, ms) ==
    /\ i \in 1..Len(auth[user].fetching)
    /\ auth[user].fetching[i] = "insert"
    /\ Cardinality(DOMAIN organizations) < MaxOrgs
    /\ LET row == InsertedOrganization(OrganizationName(UserName(user)),
                                       [base |-> Slugify(UserName(user)), at |-> ms],
                                       user, Some("free"))
       IN  IF OrgInsertFails(user, row)
           THEN /\ auth' = [auth EXCEPT ![user].organizations = <<>>,
                                        ![user].organizationId = Null,
                                        ![user].fetching = RemoveAt(@, i)]
                /\ UNCHANGED organizations
           ELSE /\ organizations' = (NextOrgId :> row) @@ organizations
                /\ auth' = [auth EXCEPT ![user].organizations = <<NextOrgId>>,
                                        ![user].organizationId = Some(NextOrgId),
                                        ![user].fetching = RemoveAt(@, i)]
    /\ UNCHANGED <<now, api_keys, usage_daily, admin_audit_log,
                   org_list, inflight, ledger, ru_error, result, validating,
                   keys_page, user_invites, organization_members, accepting>>

\* switchOrganization(orgId): select one of the organizations the provider holds
switchOrganization(user, orgId) ==
    /\ \E j \in 1..Len(auth[user].organizations) : auth[user].organizations[j] = orgId
    /\ auth' = [auth EXCEPT ![user].organizationId = Some(orgId),
                            ![user].stored = Some(orgId)]
    /\ UNCHANGED <<now, api_keys, organizations, usage_daily, admin_audit_log,
                   org_list, inflight, ledger, ru_error, result, validating,
                   keys_page, user_invites, organization_members, accepting>>

\* no organizations yet; users sign in, admins create organizations and
\* change tiers
InitO ==
    /\ now = 0
    /\ organizations = <<>>
    /\ api_keys = <<>>
    /\ usage_daily = <<>>
    /\ admin_audit_log = <<>>
    /\ org_list = <<>>
    /\ inflight = <<>>
    /\ validating = <<>>
    /\ keys_page = [u \in Users |-> NoPage]
    /\ user_invites = <<>>
    /\ organization_members = {}
    /\ accepting = <<>>
    /\ auth = [u \in Users |-> NoAuth]
    /\ ledger = <<>>
    /\ ru_error = Null
    /\ result = Null

NextO ==
    \/ \E u \in {"u1", "u2", "support1"} :
          /\ \A v \in Users : auth[v].fetching = <<>>
          /\ onAuthStateChange(u)
    \/ \E u \in Users, i \in 1..MaxFetching : fetchOrganizations_select(u, i)
    \/ \E u \in Users, i \in 1..MaxFetching : fetchOrganizations_insert(u, i, 1)
    \/ \E u \in {"admin1", "admin2"}, n \in {" ", "Acme"}, t \in {"free", "pro"},
           ms \in Millis :
          handleCreateOrg(u, n, t, ms)
    \/ \E u \in {"admin1", "admin2"}, o \in 1..MaxOrgs : handleChangeTier(u, o, "starter")

SpecO == InitO /\ [][NextO]_vars

\* the same start; two users sign in, their auth callbacks overlap
NextF ==
    \/ \E u \in {"u1", "u2"} : onAuthStateChange(u)
    \/ \E u \in Users, i \in 1..MaxFetching : fetchOrganizations_select(u, i)
    \/ \E u \in Users, i \in 1..MaxFetching, ms \in Millis :
          fetchOrganizations_insert(u, i, ms)
    \/ \E u \in Users, o \in 1..MaxOrgs : switchOrganization(u, o)

SpecF == InitO /\ [][NextF]_vars

(* ---------------------- enterprise tier on insert ---------------------- *)

\* the domain of the owner's email, if the owner has an email
EmailDomainOf(user) ==
    IF auth_users[user].email = Null THEN Null
    ELSE Some((CHOOSE e \in auth_users[user].email : TRUE)[2])

\* the active rows of enterprise_email_domains for the owner's email domain
ActiveEnterpriseRows(user) ==
    {r \in enterprise_email_domains :
        r.is_active = Some(TRUE) /\ Some(r.domain) = EmailDomainOf(user)}

\* the tier an organization of this owner is to be stored with
ExpectedTier(user, supplied) ==
    IF ActiveEnterpriseRows(user) # {}
    THEN (CHOOSE r \in ActiveEnterpriseRows(user) : TRUE).tier_id
    ELSE supplied

RowInserted == DOMAIN organizations' # DOMAIN organizations

\* C25: an organization inserted for an owner whose email domain has an active
\* enterprise_email_domains row is stored with that row's tier_id whatever tier
\* was supplied; for an owner without email or without an active matching row
\* the supplied tier, or the default 'free', is stored unchanged; an update of
\* the tier is stored as given, and nothing but handleChangeTier changes the
\* tier of an existing row.
C25_EnterpriseTierOnInsertOnly ==
    [][/\ RowInserted
             => /\ \A u \in Users, n \in {" ", "Acme"}, t \in TierIds, ms \in Millis :
                      handleCreateOrg(u, n, t, ms)
                         => /\ organizations'[NextOrgId].owner_user_id = Some(u)
                            /\ organizations'[NextOrgId].subscription_tier_id
                                  = ExpectedTier(u, Some(t))
                /\ \A u \in Users, i \in 1..MaxFetching, ms \in Millis :
                      fetchOrganizations_insert(u, i, ms)
                         => /\ organizations'[NextOrgId].owner_user_id = Some(u)
                            /\ organizations'[NextOrgId].subscription_tier_id
                                  = ExpectedTier(u, Some("free"))
       /\ \A o \in DOMAIN organizations :
             organizations'[o] # organizations[o]
                => /\ \A u \in Users, t \in TierIds :
                         handleChangeTier(u, o, t)
                            => organizations'[o].subscription_tier_id = Some(t)
                   /\ organizations'[o].subscription_tier_id
                         # organizations[o].subscription_tier_id
                         => \E u \in Users, t \in TierIds : handleChangeTier(u, o, t)]_vars

\* an owner with an active enterprise domain has an organization stored as
\* enterprise, though free or pro was supplied, and another one moved to
\* starter by an update; an owner whose domain row is switched off has a free
\* organization
C25_Witness ==
    /\ \E o \in DOMAIN organizations :
          /\ organizations[o].owner_user_id = Some("admin1")
          /\ organizations[o].subscription_tier_id = Some("enterprise")
    /\ \E o \in DOMAIN organizations :
          /\ organizations[o].owner_user_id = Some("admin1")
          /\ organizations[o].subscription_tier_id = Some("starter")
    /\ \E o \in DOMAIN organizations :
          /\ organizations[o].owner_user_id = Some("u1")
          /\ organizations[o].subscription_tier_id = Some("free")

\* an admin without enterprise domain created a pro organization, a user
\* without email and a user of a domain with a pro row signed in
C25_WitnessSupplied ==
    /\ \E o \in DOMAIN organizations :
          /\ organizations[o].owner_user_id = Some("admin2")
          /\ organizations[o].subscription_tier_id = Some("pro")
    /\ \E o \in DOMAIN organizations :
          /\ organizations[o].owner_user_id = Some("u2")
          /\ organizations[o].subscription_tier_id = Some("free")
    /\ \E o \in DOMAIN organizations :
          /\ organizations[o].owner_user_id = Some("support1")
          /\ organizations[o].subscription_tier_id = Some("pro")

(* --------------------------- auto provisioning ------------------------- *)

OrgsOwnedBy(user) ==
    {o \in DOMAIN organizations : organizations[o].owner_user_id = Some(user)}

\* the organization the provider has selected is one the user owns
SelectedIsOwned ==
    \A u \in Users : \A id \in auth[u].organizationId : id \in OrgsOwnedBy(u)

\* C30: the auth callbacks create at most one organization per user, and the
\* selected organization id is one of the user's organizations.
C30_OneOrganizationPerUser ==
    /\ \A u \in Users : Cardinality(OrgsOwnedBy(u)) <= 1
    /\ SelectedIsOwned

\* the part about the selection alone
C30_SelectedOrganizationIsOwned == SelectedIsOwned

\* a user who owns an organization gets no other one from a callback that
\* starts afterwards
C30_OwnerGetsNoOtherFromLaterCallback ==
    [][\A u \in Users :
          (OrgsOwnedBy(u) # {} /\ \A i \in 1..Len(auth[u].fetching) :
                                     auth[u].fetching[i] = "select")
             => OrgsOwnedBy(u)' = OrgsOwnedBy(u)]_vars

(* ------------------------- a NULL status ------------------------------- *)

StatusFilters == {"all"} \cup OrgStatuses

\* the row with status = 'active' in place of its status
AsActive(row) == [row EXCEPT !.status = Some("active")]

\* C26: for an organization whose status is NULL, validate_api_key returns for
\* every key of the organization the result it returns with status = 'active',
\* never a rejection organization_<status>; the admin page shows the badge of
\* an active organization, lists it under the same status filters as an active
\* one, and shows the Pause button.
C26_NullStatusIsActive ==
    \A o \in DOMAIN organizations :
       organizations[o].status = Null
          => /\ \A k \in DOMAIN api_keys :
                   api_keys[k].organization_id = o
                      => /\ ValidateKey(k, now) = ValidateKeyOfOrg(k, now, AsActive(organizations[o]))
                         /\ validate_api_key(api_keys[k].key_hash) = ValidateKey(k, now)
                         /\ ~OrgStatusBlocks(organizations[o])
             /\ getStatusBadge(LoadedList[o].status) = "Active"
             /\ getStatusBadge(LoadedList[o].status) = getStatusBadge(Some("active"))
             /\ \A f \in StatusFilters :
                   matchesStatus(LoadedList[o].status, f) <=> matchesStatus(Some("active"), f)
             /\ PauseButtonShown(LoadedList[o].status)

\* validate_api_key has let a key through whose organization has no status
C26_Witness ==
    /\ organizations["o1"].status = Null
    /\ \E r \in result :
          /\ r.ret.is_valid
          /\ r.ret.organization_id = Some("o1")

(* ------------------- requests between validate and recordUsage --------- *)

\* K: most requests that have passed validate and not yet recorded their usage
MaxInFlight == 2

\* requests the gateway serves in one run: enough to fill every slot after
\* the month total has come within one token of the limit
RequestCap == MaxInFlight + 2

\* a request: validate_api_key is called, and a request that is let through
\* stays in flight until its usage is recorded
GatewayRequest(p_key_hash) ==
    LET ret == validate_api_key(p_key_hash)
        slot == CHOOSE j \in 1..MaxInFlight : j \notin DOMAIN inflight
    IN  /\ Cardinality(DOMAIN inflight) < MaxInFlight
        /\ CallsIssued + Cardinality(DOMAIN inflight) < RequestCap
        /\ result' = Some([hash |-> p_key_hash, ret |-> ret])
        /\ api_keys' = TouchLastUsed(ret, now)
        /\ inflight' =
              IF ret.is_valid
              THEN [j \in DOMAIN inflight \cup {slot} |->
                      IF j = slot
                      THEN UsageCall(CHOOSE o \in ret.organization_id : TRUE,
                                     now, "api", "/lookup", 1, 1)
                      ELSE inflight[j]]
              ELSE inflight
        /\ UNCHANGED <<now, organizations, usage_daily, admin_audit_log, org_list,
                       ledger, ru_error, validating, keys_page, user_invites,
                       organization_members, accepting, auth>>

\* the request in flight records its usage, one request and one token, under
\* the date it was validated on or the date it is recorded on
GatewayRecordUsage(i, p_date) ==
    /\ i \in DOMAIN inflight
    /\ p_date \in {inflight[i].date, now}
    /\ LET c == [inflight[i] EXCEPT !.date = p_date]
       IN  /\ ExecuteIncrement(c)
           /\ ledger' = LedgerAdd(c)
    /\ inflight' = [j \in DOMAIN inflight \ {i} |-> inflight[j]]
    /\ UNCHANGED <<now, api_keys, organizations, admin_audit_log, org_list,
                   result, validating, keys_page, user_invites,
                   organization_members, accepting, auth>>

\* one organization on the free tier, one or two tokens below its limit, or at
\* the start of its month; two keys
InitQ ==
    /\ now = 0
    /\ organizations =
          ("o1" :> NewOrganization(Some("Org 1"), Some("u1"), Some("free")))
    /\ api_keys = ("k1" :> NewApiKey("o1", "h1")) @@ ("k2" :> NewApiKey("o1", "h2"))
    /\ \E t \in {0, StartTokens - 1, StartTokens} :
          usage_daily =
             (UsageKey("o1", 0, "api", "/lookup")
                 :> [request_count |-> t, tokens_used |-> t])
    /\ admin_audit_log = <<>>
    /\ org_list = <<>>
    /\ inflight = <<>>
    /\ validating = <<>>
    /\ keys_page = [u \in Users |-> NoPage]
    /\ user_invites = <<>>
    /\ organization_members = {}
    /\ accepting = <<>>
    /\ auth = [u \in Users |-> NoAuth]
    /\ ledger = <<>>
    /\ ru_error = Null
    /\ result = Null

NextQ ==
    \/ \E h \in {"h1", "h2"} : GatewayRequest(h)
    \/ \E i \in 1..MaxInFlight, d \in Days : GatewayRecordUsage(i, d)
    \/ Tick

SpecQ == InitQ /\ [][NextQ]_vars

\* the month total stays within the limit plus the requests in flight less one
OvershootBounded ==
    \A o \in DOMAIN organizations :
       \A l \in LimitOf(organizations[o]) : MonthTokens(o) <= l + MaxInFlight - 1

\* C27: with at most K requests between validate and recordUsage, each
\* recording one token after its own validate returned Allowed, the month
\* total of an organization with limit L never exceeds L + K - 1, and a
\* validate that returns Allowed has read a month total below L.
C27_QuotaOvershootBounded ==
    [][/\ OvershootBounded /\ OvershootBounded'
       /\ \A h \in Hashes :
             (GatewayRequest(h) /\ \E r \in result' : r.ret.is_valid)
                => \A l \in LimitOf(OrgOfHash(h)) :
                      /\ MonthTokens(api_keys[KeyOfHash(h)].organization_id) < l
                      /\ get_org_monthly_usage(api_keys[KeyOfHash(h)].organization_id).total_tokens < l]_vars

\* the bound is reached: the month total is L + K - 1
C27_Witness ==
    /\ \E l \in LimitOf(organizations["o1"]) : MonthTokens("o1") = l + MaxInFlight - 1
    /\ inflight = <<>>
    /\ \E r \in result : ~r.ret.is_valid /\ r.ret.rejection_reason = Some("quota_exceeded")

(* ------------------------------ invites -------------------------------- *)

\* most invite pages opened in one run
MaxAccepts == 2

Tokens == {"t1", "t9"}

\* policy "Org admins can read invites"
InvitesSelectPolicy(user, invite) ==
    \/ \E o \in DOMAIN organizations :
          o = invite.organization_id /\ organizations[o].owner_user_id = Some(user)
    \/ \E m \in organization_members :
          /\ m.organization_id = invite.organization_id
          /\ m.user_id = user
          /\ m.role \in {"owner", "admin"}
    \/ is_admin(user, "support")

\* invite page, loadInvite: the invite is shown when the select returns it,
\* it has not expired by the browser's clock and has not been accepted
loadInvite(user, token) ==
    /\ Len(accepting) < MaxAccepts
    /\ token \in DOMAIN user_invites
    /\ InvitesSelectPolicy(user, user_invites[token])
    /\ ~(user_invites[token].expires_at < now)
    /\ user_invites[token].accepted_at = Null
    /\ accepting' = Append(accepting,
          [token |-> token, user |-> user, pc |-> "loaded", started |-> Null,
           v_invite |-> Null, returned |-> Null])
    /\ UNCHANGED <<now, api_keys, organizations, usage_daily, admin_audit_log,
                   org_list, inflight, ledger, ru_error, result, validating,
                   keys_page, user_invites, organization_members, auth>>

\* the id the next row of organization_members gets
NextMemberId == Cardinality(organization_members) + 1

InviteError == [success |-> FALSE, error |-> "Invalid or expired invite"]

\* handleAccept calls accept_invite, whose transaction begins: NOW() is fixed
\* and the invite is looked up
handleAccept(i) ==
    /\ i \in 1..Len(accepting)
    /\ accepting[i].pc = "loaded"
    /\ LET p_token == accepting[i].token
           found == p_token \in DOMAIN user_invites
                    /\ user_invites[p_token].accepted_at = Null
                    /\ user_invites[p_token].expires_at > now
       IN  accepting' =
              IF found
              THEN [accepting EXCEPT ![i].pc = "check",
                                     ![i].started = Some(now),
                                     ![i].v_invite = Some(user_invites[p_token])]
              ELSE [accepting EXCEPT ![i].pc = "done",
                                     ![i].started = Some(now),
                                     ![i].returned = Some(InviteError)]
    /\ UNCHANGED <<now, api_keys, organizations, usage_daily, admin_audit_log,
                   org_list, inflight, ledger, ru_error, result, validating,
                   keys_page, user_invites, organization_members, auth>>

\* the member row a call would insert is already there
IsMember(org, user) ==
    \E m \in organization_members : m.organization_id = org /\ m.user_id = user

\* accept_invite, IF EXISTS (... organization_members ...): a member gets the
\* invite marked as accepted and 'Already a member'; the transaction commits
accept_invite_check(i) ==
    /\ i \in 1..Len(accepting)
    /\ accepting[i].pc = "check"
    /\ LET c == accepting[i]
           inv == CHOOSE v \in c.v_invite : TRUE
       IN  IF IsMember(inv.organization_id, c.user)
           THEN /\ user_invites' = [user_invites EXCEPT ![c.token].accepted_at = c.started]
                /\ accepting' = [accepting EXCEPT
                      ![i].pc = "done",
                      ![i].returned = Some([success |-> TRUE,
                                            message |-> "Already a member"])]
           ELSE /\ accepting' = [accepting EXCEPT ![i].pc = "insert"]
                /\ UNCHANGED user_invites
    /\ UNCHANGED <<now, api_keys, organizations, usage_daily, admin_audit_log,
                   org_list, inflight, ledger, ru_error, result, validating,
                   keys_page, organization_members, auth>>

\* accept_invite, INSERT INTO organization_members, UPDATE user_invites and
\* commit: UNIQUE(organization_id, user_id) fails the call when another call
\* has added the user meanwhile
accept_invite_insert(i) ==
    /\ i \in 1..Len(accepting)
    /\ accepting[i].pc = "insert"
    /\ LET c == accepting[i]
           inv == CHOOSE v \in c.v_invite : TRUE
       IN  IF IsMember(inv.organization_id, c.user)
           THEN /\ accepting' = [accepting EXCEPT
                      ![i].pc = "done",
                      ![i].returned = Some([success |-> FALSE, error |-> "unique_violation"])]
                /\ UNCHANGED <<organization_members, user_invites>>
           ELSE /\ organization_members' = organization_members \cup
                      {[id |-> NextMemberId, organization_id |-> inv.organization_id,
                        user_id |-> c.user, role |-> inv.role,
                        invited_by |-> Some(inv.invited_by)]}
                /\ user_invites' = [user_invites EXCEPT ![c.token].accepted_at = c.started]
                /\ accepting' = [accepting EXCEPT
                      ![i].pc = "done",
                      ![i].returned = Some([success |-> TRUE,
                                            member_id |-> NextMemberId,
                                            organization_id |-> inv.organization_id,
                                            role |-> inv.role])]
    /\ UNCHANGED <<now, api_keys, organizations, usage_daily, admin_audit_log,
                   org_list, inflight, ledger, ru_error, result, validating,
                   keys_page, auth>>

\* one organization, one invite to it that expires on day 1 or on the last
\* day; u2 is a member with role admin, or not a member
InitI ==
    /\ now = 0
    /\ organizations =
          ("o1" :> NewOrganization(Some("Org 1"), Some("u1"), Some("free")))
    /\ api_keys = <<>>
    /\ usage_daily = <<>>
    /\ admin_audit_log = <<>>
    /\ org_list = <<>>
    /\ inflight = <<>>
    /\ validating = <<>>
    /\ keys_page = [u \in Users |-> NoPage]
    /\ \E e \in {1, MaxDay} :
          user_invites =
             ("t1" :> [organization_id |-> "o1", role |-> "member",
                       invited_by |-> "u1", expires_at |-> e, accepted_at |-> Null])
    /\ \E ms \in {{}, {[id |-> 1, organization_id |-> "o1", user_id |-> "u2",
                        role |-> "admin", invited_by |-> Null]}} :
          organization_members = ms
    /\ accepting = <<>>
    /\ auth = [u \in Users |-> NoAuth]
    /\ ledger = <<>>
    /\ ru_error = Null
    /\ result = Null

NextI ==
    \/ \E u \in {"u1", "u2", "admin1", "support1"}, t \in Tokens : loadInvite(u, t)
    \/ \E i \in 1..MaxAccepts : handleAccept(i)
    \/ \E i \in 1..MaxAccepts : accept_invite_check(i)
    \/ \E i \in 1..MaxAccepts : accept_invite_insert(i)
    \/ Tick

SpecI == InitI /\ [][NextI]_vars

(* ----------------------- an invite is used once ------------------------ *)

\* the member rows the calls for a token have returned
MembersCreatedBy(token) ==
    {c.member_id : c \in
        {r \in UNION {accepting[i].returned :
                         i \in {j \in 1..Len(accepting) : accepting[j].token = token}} :
            r.success /\ "member_id" \in DOMAIN r}}

\* a call that begins after the invite was accepted is turned down
LateAcceptRefused ==
    \A i \in 1..Len(accepting) :
       (accepting[i].pc = "loaded"
        /\ user_invites[accepting[i].token].accepted_at # Null)
          => (handleAccept(i) => accepting'[i].returned = Some(InviteError))

\* no user is a member of an organization twice
OneRowPerMember ==
    \A m1, m2 \in organization_members :
       (m1.organization_id = m2.organization_id /\ m1.user_id = m2.user_id) => m1 = m2

\* C28: accepting an invite token creates at most one organization_members
\* row, whichever users call accept_invite and however the calls overlap; a
\* user who is a member already gets no second row; a call made after the
\* invite was accepted returns success = false, 'Invalid or expired invite'.
C28_InviteConsumedOnce ==
    [][/\ \A t \in DOMAIN user_invites : Cardinality(MembersCreatedBy(t)') <= 1
       /\ OneRowPerMember'
       /\ LateAcceptRefused]_vars

\* the parts that hold: no second row for a member, and a late call is refused
C28_NoSecondRowAndLateRefused == [][OneRowPerMember' /\ LateAcceptRefused]_vars

(* --------------------- what a rejection gives away --------------------- *)

\* the reasons of the checks that come before the tier is read
ReasonsWithoutLimits ==
    {"key_disabled", "key_expired", "subscription_inactive"}
       \cup {"organization_" \o s : s \in OrgStatuses}

\* the result for a hash no row has
UnknownKeyResult ==
    [api_key_id |-> Null, organization_id |-> Null, org_name |-> Null,
     tier_id |-> Null, rate_limit |-> Null, monthly_limit |-> Null,
     is_valid |-> FALSE, rejection_reason |-> Some("invalid_key")]

RevealsNoLimits(r) ==
    /\ (\E x \in r.rejection_reason : x \in ReasonsWithoutLimits)
          => r.rate_limit = Null /\ r.monthly_limit = Null
    /\ (r.rate_limit # Null \/ r.monthly_limit # Null)
          => r.is_valid \/ r.rejection_reason = Some("quota_exceeded")

\* C29: for a hash that matches no api_keys row validate_api_key returns the
\* same row in every stored state, every identifier and limit NULL and the
\* reason invalid_key; with the reasons key_disabled, key_expired,
\* organization_<status> and subscription_inactive rate_limit and
\* monthly_limit are NULL; a row that carries a limit is quota_exceeded or
\* valid.
C29_RejectionsRevealNoLimits ==
    /\ \A h \in Hashes :
          /\ ~HashKnown(h) => validate_api_key(h) = UnknownKeyResult
          /\ RevealsNoLimits(validate_api_key(h))
    /\ \A r \in result :
          /\ ~HashKnown(r.hash) => r.ret = UnknownKeyResult
          /\ RevealsNoLimits(r.ret)

\* an unknown hash was presented while the organization is over its quota
C29_Witness ==
    /\ \E r \in result : r.hash = "h3" /\ r.ret = UnknownKeyResult
    /\ validate_api_key("h1").rejection_reason = Some("quota_exceeded")
    /\ validate_api_key("h2").rejection_reason = Some("key_disabled")

====
